---------------------------- MODULE Spec2Model ----------------------------
(***************************************************************************)
(* A model of guc, the glTF to USD converter (libguc).                     *)
(*                                                                         *)
(*  - mesh.cpp / Converter::createMeshPrimitive: topology normalisation,   *)
(*    flat normals, tangents and the emitted mesh (specification SpecMesh) *)
(*  - Converter::convert and the scene walk with its path cache           *)
(*    (specification Spec)                                                 *)
(*  - MaterialXMaterialConverter: lowering of one material to a shader     *)
(*    node and its node graph (specification SpecMtlx)                     *)
(***************************************************************************)
EXTENDS Integers, Sequences, FiniteSets, TLC

(***************************************************************************)
(* Bounds of the model.                                                    *)
(***************************************************************************)
\* longest index list read from a primitive's index accessor
MaxIndices == 4
\* largest number of elements of a POSITION accessor
MaxVertices == 3
\* largest number of TEXCOORD_n sets of a primitive
MaxTexCoordSets == 1
\* largest number of nodes of a source document
MaxNodes == 2

(***************************************************************************)
(* Generic helpers.                                                        *)
(***************************************************************************)
RECURSIVE SumSeq(_)
SumSeq(s) == IF s = <<>> THEN 0 ELSE Head(s) + SumSeq(Tail(s))

\* VtArray<T>(n, v): n copies of v
Filled(n, v) == [j \in 1..n |-> v]

\* the sequences over S of length 0..n
SeqsUpTo(S, n) == UNION {[1..k -> S] : k \in 0..n}

Range(s) == {s[j] : j \in 1..Len(s)}

(***************************************************************************)
(* mesh.cpp: createGeometryRepresentation.  Sequences are 1-based, so the  *)
(* C++ element a[i] is a[i + 1] here.                                      *)
(***************************************************************************)
PrimitiveTypes ==
  {"points", "lines", "line_loop", "line_strip",
   "triangles", "triangle_strip", "triangle_fan"}

GeomFailure == [ok |-> FALSE, outIndices |-> <<>>, faceVertexCounts |-> <<>>]

GeomResult(out, fvc) == [ok |-> TRUE, outIndices |-> out, faceVertexCounts |-> fvc]

PointsRepresentation(inIndices) ==
  GeomResult(inIndices, Filled(Len(inIndices), 1))

LinesRepresentation(inIndices) ==
  IF Len(inIndices) % 2 # 0
  THEN GeomFailure
  ELSE GeomResult(inIndices, Filled(Len(inIndices) \div 2, 2))

TrianglesRepresentation(inIndices) ==
  IF Len(inIndices) % 3 # 0
  THEN GeomFailure
  ELSE GeomResult(inIndices, Filled(Len(inIndices) \div 3, 3))

LineStripRepresentation_shortCount(inIndices) ==
  IF Len(inIndices) < 2
  THEN GeomFailure
  ELSE LET fvc == Filled(Len(inIndices) - 2, 2)
           out == [j \in 1..(2 * (Len(inIndices) - 1)) |->
                     inIndices[((j - 1) \div 2) + ((j - 1) % 2) + 1]]
       IN  GeomResult(out, fvc)

LineStripRepresentation(inIndices) ==
  IF Len(inIndices) < 2
  THEN GeomFailure
  ELSE LET fvc == Filled(Len(inIndices) - 1, 2)
           \* outIndices[i*2+0] = inIndices[i]; outIndices[i*2+1] = inIndices[i+1]
           out == [j \in 1..(2 * Len(fvc)) |->
                     inIndices[((j - 1) \div 2) + ((j - 1) % 2) + 1]]
       IN  GeomResult(out, fvc)

LineLoopRepresentation(inIndices) ==
  IF Len(inIndices) < 2
  THEN GeomFailure
  ELSE LET n   == Len(inIndices)
           fvc == Filled(n, 2)
           \* resize(n * 2) value-initialises the slots to 0; the loop
           \* writes the slots of segments 0 .. n-2
           looped == [j \in 1..(2 * n) |->
                        IF j <= 2 * (n - 1)
                        THEN inIndices[((j - 1) \div 2) + ((j - 1) % 2) + 1]
                        ELSE 0]
           \* after the loop i = n - 1:
           \*   outIndices[i + 0] = inIndices[n - 1]; outIndices[i + 1] = inIndices[0]
           out == [looped EXCEPT ![(n - 1) + 0 + 1] = inIndices[n],
                                 ![(n - 1) + 1 + 1] = inIndices[1]]
       IN  GeomResult(out, fvc)

TriangleStripRepresentation_noFlip(inIndices) ==
  IF Len(inIndices) < 3
  THEN GeomFailure
  ELSE LET fvc == Filled(Len(inIndices) - 2, 3)
           out == [j \in 1..(3 * Len(fvc)) |->
                     inIndices[((j - 1) \div 3) + ((j - 1) % 3) + 1]]
       IN  GeomResult(out, fvc)

TriangleStripRepresentation(inIndices) ==
  IF Len(inIndices) < 3
  THEN GeomFailure
  ELSE LET fvc == Filled(Len(inIndices) - 2, 3)
           \* forward starts true and flips after every triangle
           forward(i) == (i % 2 = 0)
           corner(i, c) == CASE c = 0 -> i
                             [] c = 1 -> IF forward(i) THEN i + 1 ELSE i + 2
                             [] c = 2 -> IF forward(i) THEN i + 2 ELSE i + 1
           out == [j \in 1..(3 * Len(fvc)) |->
                     inIndices[corner((j - 1) \div 3, (j - 1) % 3) + 1]]
       IN  GeomResult(out, fvc)

TriangleFanRepresentation(inIndices) ==
  IF Len(inIndices) < 3
  THEN GeomFailure
  ELSE LET fvc == Filled(Len(inIndices) - 2, 3)
           corner(i, c) == IF c = 0 THEN 0 ELSE i + c
           out == [j \in 1..(3 * Len(fvc)) |->
                     inIndices[corner((j - 1) \div 3, (j - 1) % 3) + 1]]
       IN  GeomResult(out, fvc)

createGeometryRepresentation(type, inIndices) ==
  CASE type = "points"         -> PointsRepresentation(inIndices)
    [] type = "lines"          -> LinesRepresentation(inIndices)
    [] type = "triangles"      -> TrianglesRepresentation(inIndices)
    [] type = "line_strip"     -> LineStripRepresentation(inIndices)
    [] type = "line_loop"      -> LineLoopRepresentation(inIndices)
    [] type = "triangle_strip" -> TriangleStripRepresentation(inIndices)
    [] type = "triangle_fan"   -> TriangleFanRepresentation(inIndices)
    [] OTHER                   -> GeomFailure


\* converter.cpp lines 1062-1069: without an index accessor the indices are
\* 0 .. count-1
readIndices(primitive) ==
  IF primitive.indices = <<>>
  THEN [j \in 1..primitive.positionCount |-> j - 1]
  ELSE primitive.indices

createMeshPrimitiveSucceeds_always(primitive) == TRUE

\* converter.cpp lines 1036-1078: the early returns of createMeshPrimitive
createMeshPrimitiveSucceeds(primitive) ==
  /\ primitive.positionCount # 0
  /\ createGeometryRepresentation(primitive.type, readIndices(primitive)).ok

(***************************************************************************)
(* State.                                                                  *)
(***************************************************************************)
VARIABLES
  \* ---- Converter::createMeshPrimitive (converter.cpp, mesh.cpp) ----
  mpc,                \* position in createMeshPrimitive
  primitiveData,      \* the source primitive: type, index accessor, POSITION count
  attributes,         \* what the attribute accessors, the material and m_params hold
  inIndices,          \* indices handed to createGeometryRepresentation
  indices,            \* the primitive's index buffer
  faceVertexCounts,
  colorSets,          \* lengths of the COLOR_n arrays read
  texCoordSets,       \* lengths of the TEXCOORD_n arrays read
  normals,
  generatedNormals,
  tangents,
  bitangents,
  generatedTangents,
  mesh,               \* the UsdGeomMesh defined at the end, or NoMesh
  \* ---- Converter::convert and the scene walk (converter.cpp) ----
  doc,                \* m_data: the source document
  cpc,                \* position in Converter::convert
  sceneIdx,           \* scene being converted (1-based)
  rootIdx,            \* next root node of the scene, or next node of the library
  scenePath,          \* target path of the scene being converted
  stack,              \* active calls of createNodesRecursively, innermost last
  stage,              \* m_stage: the prims, each with its path
  emitted,            \* every Define / OverridePrim so far, in order
  uniquePaths,        \* m_uniquePaths: the path cache
  bindings,           \* material bindings created
  diagnostics,        \* errors reported
  variantSet,         \* the material variant set of the default prim
  m_params,           \* the conversion parameters convert reads
  \* ---- MaterialXMaterialConverter (materialx.cpp) ----
  material,           \* the source material handed to convert
  m_flattenNodes,
  m_explicitColorSpaceTransforms,
  m_hdstormCompat,
  xpc,                \* position in createMaterialNodes / setGltfPbrInputs
  m_doc,              \* the MaterialX document: its nodes and its node graph
  warnings,           \* TF_WARN messages of the material converter
  \* ---- guc_convert (guc.cpp) ----
  gpc,                \* position in guc_convert
  options,            \* guc_options, the target's extension and the USD version
  ioFailures,         \* the I/O operations that have failed
  runtimeErrors,      \* TF_RUNTIME_ERROR messages of guc_convert
  returned,           \* <<>>, or the value guc_convert returned
  \* ---- Converter::createMaterials (converter.cpp, naming.cpp) ----
  npc,                \* position in createMaterials / makeUniqueMaterialName
  materialsData,      \* m_data->materials: the name of each source material
  createDefaultMaterial,
  materialNameSet,    \* the names given so far
  m_materialNames,    \* the name of each source material converted so far
  uniqueName          \* baseName, name and i of makeUniqueMaterialName

meshVars == <<mpc, primitiveData, attributes, inIndices, indices, faceVertexCounts,
              colorSets, texCoordSets, normals, generatedNormals, tangents, bitangents,
              generatedTangents, mesh>>

sceneVars == <<doc, cpc, sceneIdx, rootIdx, scenePath, stack, stage, emitted,
               uniquePaths, bindings, diagnostics, variantSet, m_params>>

mtlxVars == <<material, m_flattenNodes, m_explicitColorSpaceTransforms,
              m_hdstormCompat, xpc, m_doc, warnings>>

gucVars == <<gpc, options, ioFailures, runtimeErrors, returned>>

nameVars == <<npc, materialsData, createDefaultMaterial, materialNameSet,
              m_materialNames, uniqueName>>

\* what each part of the program leaves alone
otherThanMesh == <<sceneVars, mtlxVars, gucVars, nameVars>>
otherThanScene == <<meshVars, mtlxVars, gucVars, nameVars>>
otherThanMtlx == <<meshVars, sceneVars, gucVars, nameVars>>
otherThanGuc == <<meshVars, sceneVars, mtlxVars, nameVars>>
otherThanNames == <<meshVars, sceneVars, mtlxVars, gucVars>>

vars == <<meshVars, sceneVars, mtlxVars, gucVars, nameVars>>

(***************************************************************************)
(* naming.cpp: identifiers and target paths.  A name is a sequence of      *)
(* characters, a path is a string.                                         *)
(***************************************************************************)
Letters == {"a", "b", "c", "d", "e", "g", "h", "i", "l", "m", "n", "o", "s",
            "t", "u"}
Digits == <<"0", "1", "2", "3", "4", "5", "6", "7", "8", "9">>

IsAlpha(c) == c \in Letters
IsAlnum(c) == c \in Letters \/ c \in Range(Digits)

\* std::string from its characters
RECURSIVE Str(_)
Str(chars) == IF chars = <<>> THEN "" ELSE Head(chars) \o Str(Tail(chars))

\* std::to_string of a non-negative int
RECURSIVE to_string(_)
to_string(i) ==
  IF i < 10 THEN <<Digits[i + 1]>>
  ELSE to_string(i \div 10) \o <<Digits[(i % 10) + 1]>>

\* TfMakeValidIdentifier as called by makeUniqueStageSubpath: "_" for the
\* empty string; otherwise the first character is kept if it is a letter or
\* an underscore, every other character if it is a letter, a digit or an
\* underscore, and the rest become underscores
TfMakeValidIdentifier(in) ==
  IF in = <<>> THEN <<"_">>
  ELSE [j \in 1..Len(in) |->
          IF j = 1
          THEN IF IsAlpha(in[j]) \/ in[j] = "_" THEN in[j] ELSE "_"
          ELSE IF IsAlnum(in[j]) \/ in[j] = "_" THEN in[j] ELSE "_"]

\* SdfPath::AppendElementString
AppendElementString(root, element) == root \o "/" \o Str(element)

\* UsdStage::GetObjectAtPath, as a truth value
GetObjectAtPath(stg, path) == \E p \in stg : p.path = path

\* the loop of makeUniqueStageSubpath: finalPath is the candidate under test,
\* i the suffix of the next one
RECURSIVE FirstFreePath(_, _, _, _)
FirstFreePath(stg, basePath, finalPath, i) ==
  IF GetObjectAtPath(stg, finalPath)
  THEN FirstFreePath(stg, basePath, basePath \o "_" \o Str(to_string(i)), i + 1)
  ELSE finalPath

makeUniqueStageSubpath_noSuffix(stg, root, baseName) ==
  AppendElementString(root, TfMakeValidIdentifier(baseName))

makeUniqueStageSubpath(stg, root, baseName) ==
  LET finalPath == AppendElementString(root, TfMakeValidIdentifier(baseName))
  IN  FirstFreePath(stg, finalPath, finalPath, 1)

\* getEntryPath
RootPath == "/Asset"
ScenesPath == "/Asset/Scenes"
NodesPath == "/Asset/Nodes"
MaterialsPath == "/Asset/Materials"

(***************************************************************************)
(* The source document (cgltf_data).  Entities are referred to by their    *)
(* 1-based position in the document's tables, 0 standing for a null        *)
(* pointer.                                                                *)
(***************************************************************************)
NoName == [given |-> FALSE, text |-> <<>>]
Name(text) == [given |-> TRUE, text |-> text]

\* name ? name : fallback
NameOr(name, fallback) == IF name.given THEN name.text ELSE fallback

GoodPrimitive ==
  [type |-> "triangles", indices |-> <<0, 1, 2>>, positionCount |-> 3]

\* one primitive against each index-count requirement of
\* createGeometryRepresentation, and one that meets its requirement
PrimitiveSamples ==
  << [type |-> "lines", indices |-> <<0, 1, 0>>, positionCount |-> 2],
     [type |-> "triangles", indices |-> <<0, 1>>, positionCount |-> 2],
     [type |-> "line_strip", indices |-> <<0>>, positionCount |-> 1],
     [type |-> "line_loop", indices |-> <<>>, positionCount |-> 1],
     [type |-> "triangle_strip", indices |-> <<0, 1>>, positionCount |-> 2],
     [type |-> "triangle_fan", indices |-> <<>>, positionCount |-> 2],
     GoodPrimitive >>

\* meshes: "a" with one primitive; an unnamed one with seven primitives, of
\* which only the last can be lowered
Meshes ==
  << [name |-> Name(<<"a">>), primitives |-> <<GoodPrimitive>>],
     [name |-> NoName, primitives |-> PrimitiveSamples] >>

Cameras ==
  << [name |-> Name(<<"a", " ", "1">>), type |-> "perspective"],
     [name |-> Name(<<"l">>), type |-> "invalid"] >>

Lights ==
  << [name |-> Name(<<"l">>), type |-> "point"],
     [name |-> NoName, type |-> "invalid"] >>

\* the kinds of node: its name and what it refers to
NodeSamples ==
  << [name |-> Name(<<"a">>), mesh |-> 1, camera |-> 0, light |-> 0],
     [name |-> NoName, mesh |-> 2, camera |-> 1, light |-> 1],
     [name |-> NoName, mesh |-> 0, camera |-> 2, light |-> 1],
     [name |-> Name(<<"a">>), mesh |-> 1, camera |-> 1, light |-> 2],
     [name |-> Name(<<"a">>), mesh |-> 0, camera |-> 0, light |-> 0],
     [name |-> NoName, mesh |-> 0, camera |-> 0, light |-> 0] >>

\* the elements of a set of integers in increasing order
RECURSIVE Sorted(_)
Sorted(S) ==
  IF S = {} THEN <<>>
  ELSE LET least == CHOOSE x \in S : \A y \in S : x <= y
       IN  <<least>> \o Sorted(S \ {least})

\* the name of material variant i, and the mappings of a primitive that has
\* one material per variant: variant i shows material i
VariantName(i) == <<"a", " ">> \o to_string(i)

Mappings(variants_count) ==
  [j \in 1..variants_count |-> [variant |-> j - 1, material |-> j - 1]]

\* a document of n nodes: node i is of kind[i] and is a child of parent[i]
\* (0: a root node) and has no transform; every scene lists all root nodes;
\* the primitive of the first mesh has the given material mappings
Document(n, kind, parent, scenes_count, variants_count, mappings) ==
  [nodes |-> [i \in 1..n |->
                [name |-> NodeSamples[kind[i]].name,
                 mesh |-> NodeSamples[kind[i]].mesh,
                 camera |-> NodeSamples[kind[i]].camera,
                 light |-> NodeSamples[kind[i]].light,
                 has_matrix |-> FALSE,
                 has_translation |-> FALSE,
                 has_rotation |-> FALSE,
                 has_scale |-> FALSE,
                 children |-> Sorted({j \in 1..n : parent[j] = i})]],
   scenes |-> [s \in 1..scenes_count |->
                [name |-> NoName,
                 nodes |-> Sorted({j \in 1..n : parent[j] = 0})]],
   meshes |-> Meshes,
   cameras |-> Cameras,
   lights |-> Lights,
   variants |-> [i \in 1..variants_count |-> [name |-> VariantName(i - 1)]],
   mappings |-> mappings]

NoDocument ==
  [nodes |-> <<>>, scenes |-> <<>>, meshes |-> <<>>, cameras |-> <<>>,
   lights |-> <<>>, variants |-> <<>>, mappings |-> <<>>]

\* the default prim has no variant set
NoVariantSet == [defined |-> FALSE, variants |-> <<>>, selection |-> ""]

\* the scene walk is not running
SceneIdle ==
  /\ doc = NoDocument
  /\ cpc = "idle"
  /\ sceneIdx = 0
  /\ rootIdx = 0
  /\ scenePath = ""
  /\ stack = <<>>
  /\ stage = {}
  /\ emitted = <<>>
  /\ uniquePaths = <<>>
  /\ bindings = {}
  /\ diagnostics = {}
  /\ variantSet = NoVariantSet
  /\ m_params = [defaultMaterialVariant |-> 0]

\* a material converter that was constructed and converts nothing
NoMaterial == [alpha_mode |-> "none"]

NoMtlxDocument == [colorspace |-> "", nodes |-> <<>>, nodeGraphs |-> <<>>]

MtlxIdle ==
  /\ material = NoMaterial
  /\ m_flattenNodes = FALSE
  /\ m_explicitColorSpaceTransforms = FALSE
  /\ m_hdstormCompat = FALSE
  /\ xpc = "idle"
  /\ m_doc = NoMtlxDocument
  /\ warnings = <<>>

NoOptions ==
  [mtlx_as_usdshade |-> FALSE, gltf_pbr_impl |-> "runtime", export_usdz |-> FALSE,
   pxr_2308 |-> FALSE]

\* guc_convert is not running
GucIdle ==
  /\ gpc = "idle"
  /\ options = NoOptions
  /\ ioFailures = {}
  /\ runtimeErrors = {}
  /\ returned = <<>>

\* makeUniqueMaterialName is not running
NoUniqueName == [baseName |-> <<>>, name |-> <<>>, i |-> 0]

\* createMaterials is not running
NamesIdle ==
  /\ npc = "idle"
  /\ materialsData = <<>>
  /\ createDefaultMaterial = FALSE
  /\ materialNameSet = {}
  /\ m_materialNames = <<>>
  /\ uniqueName = NoUniqueName

(***************************************************************************)
(* mesh.cpp: createFlatNormals and createTangents.                         *)
(***************************************************************************)
ZeroVector == [kind |-> "zero"]
FaceNormal(t) == [kind |-> "face", face |-> t]
AuthoredValue == [kind |-> "authored"]
GeneratedValue(k) == [kind |-> "generated", corner |-> k]

SetMax(S) == CHOOSE x \in S : \A y \in S : y <= x

\* normals.resize(positions.size()); then, triangle after triangle,
\* normals[i0] = normals[i1] = normals[i2] = n: a vertex keeps the normal of the
\* last triangle that uses it, an unused vertex the value-initialised vector.
createFlatNormals(idx, positionCount) ==
  [v \in 1..positionCount |->
     LET faces == {t \in 0..((Len(idx) \div 3) - 1) :
                     (v - 1) \in {idx[3 * t + 1], idx[3 * t + 2], idx[3 * t + 3]}}
     IN  IF faces = {} THEN ZeroVector ELSE FaceNormal(SetMax(faces))]

\* unindexedTangents.resize(indices.size()); setTSpaceBasic writes slot
\* iFace * 3 + iVert.  The second output array gets the same length.
createTangents(idx) == [k \in 1..Len(idx) |-> GeneratedValue(k - 1)]

(***************************************************************************)
(* converter.cpp: Converter::createMeshPrimitive, step by step.            *)
(***************************************************************************)
NoMesh == [defined |-> FALSE]
NoAttributes == [read |-> FALSE]

hasTriangleTopology(type) == type \in {"triangles", "triangle_strip", "triangle_fan"}

\* Converter::isValidTexture: texture, image and image metadata are all present
isValidTexture(textureView) == textureView.texture = "valid"

\* a texture view: its texture is absent, has no image, has an image without
\* metadata entry, or is valid; texcoord is the UV set it samples
TextureViews ==
  [texture : {"none", "noImage", "noMetadata"}, texcoord : {0}]
    \cup [texture : {"valid"}, texcoord : 0..MaxTexCoordSets]

shouldCreateTangents_anyTopology(type, emitMtlx, normalTexture, texCoordSetCount) ==
  /\ emitMtlx
  /\ isValidTexture(normalTexture)
  /\ normalTexture.texcoord < texCoordSetCount

\* lines 1268-1276: the conditions under which createTangents is called
shouldCreateTangents(type, emitMtlx, normalTexture, texCoordSetCount) ==
  /\ hasTriangleTopology(type)
  /\ emitMtlx
  /\ isValidTexture(normalTexture)
  /\ normalTexture.texcoord < texCoordSetCount

\* the COLOR_n accessors of a primitive, COLOR_0 first: of type vec3 or vec4,
\* of another type, or of a type that is fine and data that cannot be read
ColorAccessors ==
  {<<>>, <<"vec3">>, <<"vec4">>, <<"unreadable">>, <<"invalid type">>,
   <<"vec4", "unreadable">>}

\* the TEXCOORD_n accessors of a primitive, TEXCOORD_0 first
TexCoordAccessors == SeqsUpTo({"readable", "unreadable"}, MaxTexCoordSets)

Primitives ==
  UNION {[type : PrimitiveTypes,
          indices : SeqsUpTo(0..(n - 1), MaxIndices),
          positionCount : {n},
          colors : ColorAccessors,
          texcoords : TexCoordAccessors] : n \in 0..MaxVertices}

\* createMeshPrimitive is not running
MeshIdle ==
  /\ mpc = "idle"
  /\ primitiveData = GoodPrimitive
  /\ attributes = NoAttributes
  /\ inIndices = <<>>
  /\ indices = <<>>
  /\ faceVertexCounts = <<>>
  /\ colorSets = <<>>
  /\ texCoordSets = <<>>
  /\ normals = <<>>
  /\ generatedNormals = FALSE
  /\ tangents = <<>>
  /\ bitangents = <<>>
  /\ generatedTangents = FALSE
  /\ mesh = NoMesh

MeshInit ==
  /\ mpc = "indices"
  /\ primitiveData \in Primitives
  /\ attributes = NoAttributes
  /\ inIndices = <<>>
  /\ indices = <<>>
  /\ faceVertexCounts = <<>>
  /\ colorSets = <<>>
  /\ texCoordSets = <<>>
  /\ normals = <<>>
  /\ generatedNormals = FALSE
  /\ tangents = <<>>
  /\ bitangents = <<>>
  /\ generatedTangents = FALSE
  /\ mesh = NoMesh
  /\ SceneIdle
  /\ MtlxIdle
  /\ GucIdle
  /\ NamesIdle

\* lines 1036-1078: indices, points, createGeometryRepresentation
ReadIndicesAndPoints ==
  /\ mpc = "indices"
  /\ LET filled == readIndices(primitiveData)
         geom == createGeometryRepresentation(primitiveData.type, filled)
     IN  IF primitiveData.positionCount = 0
         THEN \* "invalid POSITION accessor"
              /\ mpc' = "failed"
              /\ UNCHANGED <<inIndices, indices, faceVertexCounts>>
         ELSE IF ~geom.ok
         THEN \* "unable to create geometric representation"
              /\ mpc' = "failed"
              /\ inIndices' = filled
              /\ UNCHANGED <<indices, faceVertexCounts>>
         ELSE /\ mpc' = "colors"
              /\ inIndices' = filled
              /\ indices' = geom.outIndices
              /\ faceVertexCounts' = geom.faceVertexCounts
  /\ UNCHANGED otherThanMesh
  /\ UNCHANGED <<primitiveData, attributes, colorSets, texCoordSets, normals,
                 generatedNormals, tangents, bitangents, generatedTangents, mesh>>

\* cgltf_find_accessor(primitiveData, name + std::to_string(index)): the
\* accessor, or "absent"
findAccessor(accessors, index) ==
  IF index + 1 \in DOMAIN accessors THEN accessors[index + 1] ELSE "absent"

\* lines 1082-1156: one round of the loop over the COLOR_n sets.  The name
\* looked for is COLOR_<colorSets.size()>: the loop ends when there is no
\* such accessor; an accessor that is read adds a set; after one of another
\* type or one that cannot be read (continue) the next round looks for the
\* same name.
ReadColorSet ==
  /\ mpc = "colors"
  /\ LET accessor == findAccessor(primitiveData.colors, Len(colorSets))
     IN  IF accessor = "absent"
         THEN \* break
              /\ mpc' = "texcoords"
              /\ UNCHANGED colorSets
         ELSE IF accessor \in {"vec3", "vec4"}
         THEN /\ colorSets' = Append(colorSets, primitiveData.positionCount)
              /\ UNCHANGED mpc
         ELSE \* "can't read COLOR_n attribute; ignoring" or
              \* "invalid COLOR attribute type; ignoring"; continue
              UNCHANGED <<mpc, colorSets>>
  /\ UNCHANGED otherThanMesh
  /\ UNCHANGED <<primitiveData, attributes, inIndices, indices, faceVertexCounts,
                 texCoordSets, normals, generatedNormals, tangents, bitangents,
                 generatedTangents, mesh>>

\* lines 1198-1223: one round of the loop over the TEXCOORD_n sets.  The
\* name looked for is TEXCOORD_<texCoordSets.size()>; after an accessor that
\* cannot be read (continue) the next round looks for the same name.
ReadTexCoordSets ==
  /\ mpc = "texcoords"
  /\ LET accessor == findAccessor(primitiveData.texcoords, Len(texCoordSets))
     IN  IF accessor = "absent"
         THEN \* break
              /\ mpc' = "normals"
              /\ UNCHANGED texCoordSets
         ELSE IF accessor = "readable"
         THEN /\ texCoordSets' = Append(texCoordSets, primitiveData.positionCount)
              /\ UNCHANGED mpc
         ELSE \* continue
              UNCHANGED <<mpc, texCoordSets>>
  /\ UNCHANGED otherThanMesh
  /\ UNCHANGED <<primitiveData, attributes, inIndices, indices, faceVertexCounts,
                 colorSets, normals, generatedNormals, tangents, bitangents,
                 generatedTangents, mesh>>

\* lines 1230-1246: authored normals, else flat normals for triangle topology
ReadOrCreateNormals ==
  /\ mpc = "normals"
  /\ \E hasNormal \in BOOLEAN :
       /\ attributes' = [read |-> TRUE, hasNormal |-> hasNormal]
       /\ IF hasNormal
          THEN /\ normals' = Filled(primitiveData.positionCount, AuthoredValue)
               /\ generatedNormals' = FALSE
          ELSE IF hasTriangleTopology(primitiveData.type)
          THEN /\ normals' = createFlatNormals(indices, primitiveData.positionCount)
               /\ generatedNormals' = TRUE
          ELSE /\ normals' = <<>>
               /\ generatedNormals' = FALSE
  /\ mpc' = "tangents"
  /\ UNCHANGED otherThanMesh
  /\ UNCHANGED <<primitiveData, inIndices, indices, faceVertexCounts, colorSets,
                 texCoordSets, tangents, bitangents, generatedTangents, mesh>>

\* what a read of normals[i] past the end of the array leaves in bitangents[i]
GarbageValue == [kind |-> "garbage"]

\* lines 1257-1267: bitangents[i] = GfCross(normals[i], tangents[i]) * w for
\* every element of the TANGENT accessor; normals[i] is read unchecked
authoredBitangents(normalCount, tangentCount) ==
  [i \in 1..tangentCount |->
     IF i <= normalCount THEN AuthoredValue ELSE GarbageValue]

\* lines 1248-1292: authored tangents, else generated ones for a normal-mapped
\* material.  With fewer normals than tangents the reads of normals[i] leave
\* the array: the call goes on with whatever was read, or the process dies.
ReadOrCreateTangents ==
  /\ mpc = "tangents"
  /\ \E tangent \in {"absent", "unreadable", "readable"},
        normalTexture \in TextureViews, emitMtlx \in BOOLEAN,
        survives \in BOOLEAN :
       /\ attributes' = [read |-> TRUE, hasNormal |-> attributes.hasNormal,
                         tangent |-> tangent,
                         normalTexture |-> normalTexture, emitMtlx |-> emitMtlx]
       /\ mpc' = IF /\ ~generatedNormals /\ tangent = "readable"
                    /\ Len(normals) < primitiveData.positionCount
                    /\ ~survives
                 THEN "crashed" ELSE "emit"
       /\ IF ~generatedNormals /\ tangent # "absent"
          THEN /\ tangents' = IF tangent = "readable"
                              THEN Filled(primitiveData.positionCount, AuthoredValue)
                              ELSE <<>>
               /\ bitangents' = authoredBitangents(Len(normals), Len(tangents'))
               /\ generatedTangents' = FALSE
          ELSE IF shouldCreateTangents(primitiveData.type, emitMtlx, normalTexture,
                                       Len(texCoordSets))
          THEN /\ tangents' = createTangents(indices)
               /\ bitangents' = createTangents(indices)
               /\ generatedTangents' = TRUE
          ELSE /\ tangents' = <<>>
               /\ bitangents' = <<>>
               /\ generatedTangents' = FALSE
  /\ UNCHANGED otherThanMesh
  /\ UNCHANGED <<primitiveData, inIndices, indices, faceVertexCounts, colorSets,
                 texCoordSets, normals, generatedNormals, mesh>>

\* lines 1294-1420: UsdGeomMesh::Define and its attributes and primvars
DefineMesh ==
  /\ mpc = "emit"
  /\ mesh' = [defined |-> TRUE,
              faceVertexIndices |-> indices,
              faceVertexCounts |-> faceVertexCounts,
              points |-> primitiveData.positionCount,
              normals |-> normals,
              normalsInterpolation |->
                IF normals = <<>> THEN "none"
                ELSE IF generatedNormals THEN "uniform" ELSE "vertex",
              normalsGenerated |-> (normals # <<>> /\ generatedNormals),
              tangents |-> tangents,
              bitangents |-> bitangents,
              tangentInterpolation |->
                IF generatedTangents THEN "faceVarying" ELSE "vertex",
              tangentsGenerated |-> (tangents # <<>> /\ generatedTangents),
              colors |-> colorSets,
              st |-> texCoordSets]
  /\ mpc' = "done"
  /\ UNCHANGED otherThanMesh
  /\ UNCHANGED <<primitiveData, attributes, inIndices, indices, faceVertexCounts,
                 colorSets, texCoordSets, normals, generatedNormals, tangents,
                 bitangents, generatedTangents>>

MeshNext ==
  \/ ReadIndicesAndPoints
  \/ ReadColorSet
  \/ ReadTexCoordSets
  \/ ReadOrCreateNormals
  \/ ReadOrCreateTangents
  \/ DefineMesh

SpecMesh == MeshInit /\ [][MeshNext]_vars

\* createMeshPrimitive runs on one thread: a step that can be taken is taken
SpecMeshFair == SpecMesh /\ WF_vars(MeshNext)


(***************************************************************************)
(* Claims about the topology normaliser and createMeshPrimitive, checked   *)
(* under SpecMesh.                                                         *)
(***************************************************************************)
GeometryCreated == mpc \notin {"indices", "failed"}

ExpectedFaceVertexCount(type) ==
  CASE type = "points" -> 1
    [] type \in {"lines", "line_strip", "line_loop"} -> 2
    [] OTHER -> 3

\* C3: whenever createGeometryRepresentation returns true, the face vertex
\* counts sum up to the number of output indices and every count is 1, 2 or 3
\* according to the primitive kind.
C3_FaceVertexCountsSum ==
  GeometryCreated =>
    /\ SumSeq(faceVertexCounts) = Len(indices)
    /\ \A j \in 1..Len(faceVertexCounts) :
         faceVertexCounts[j] = ExpectedFaceVertexCount(primitiveData.type)

\* a line strip of four indices went through: three segments, six indices
C3_Witness ==
  /\ GeometryCreated
  /\ primitiveData.type = "line_strip"
  /\ Len(inIndices) = 4
  /\ Len(indices) = 6

\* C4: a triangle strip of n >= 3 indices gives n-2 triangles, triangle k being
\* (in[k], in[k+1], in[k+2]) for even k and (in[k], in[k+2], in[k+1]) for odd k;
\* a triangle fan gives n-2 triangles (in[0], in[k+1], in[k+2]).
C4_StripAndFanTriangles ==
  LET n == Len(inIndices) IN
  /\ (GeometryCreated /\ primitiveData.type = "triangle_strip") =>
       /\ n >= 3
       /\ Len(indices) = 3 * (n - 2)
       /\ \A k \in 0..(n - 3) :
            <<indices[3 * k + 1], indices[3 * k + 2], indices[3 * k + 3]>> =
              IF k % 2 = 0
              THEN <<inIndices[k + 1], inIndices[k + 2], inIndices[k + 3]>>
              ELSE <<inIndices[k + 1], inIndices[k + 3], inIndices[k + 2]>>
  /\ (GeometryCreated /\ primitiveData.type = "triangle_fan") =>
       /\ n >= 3
       /\ Len(indices) = 3 * (n - 2)
       /\ \A k \in 0..(n - 3) :
            <<indices[3 * k + 1], indices[3 * k + 2], indices[3 * k + 3]>> =
              <<inIndices[1], inIndices[k + 2], inIndices[k + 3]>>

\* a strip whose second (odd) triangle has two different trailing corners, so
\* that the flipped and the unflipped winding differ
C4_Witness ==
  /\ GeometryCreated
  /\ primitiveData.type = "triangle_strip"
  /\ Len(inIndices) = 4
  /\ inIndices[3] # inIndices[4]

\* C5: a line strip of n >= 2 indices gives n-1 segments (in[k], in[k+1]); a
\* line loop gives n segments (in[k], in[(k+1) mod n]), the last one joining
\* the last index back to the first.
C5_StripAndLoopSegments ==
  LET n == Len(inIndices) IN
  /\ (GeometryCreated /\ primitiveData.type = "line_strip") =>
       /\ n >= 2
       /\ Len(indices) = 2 * (n - 1)
       /\ \A k \in 0..(n - 2) :
            <<indices[2 * k + 1], indices[2 * k + 2]>> =
              <<inIndices[k + 1], inIndices[k + 2]>>
  /\ (GeometryCreated /\ primitiveData.type = "line_loop") =>
       /\ n >= 2
       /\ Len(indices) = 2 * n
       /\ \A k \in 0..(n - 1) :
            <<indices[2 * k + 1], indices[2 * k + 2]>> =
              <<inIndices[k + 1], inIndices[((k + 1) % n) + 1]>>

MeshDone == mpc = "done" /\ mesh.defined

NoAuthoredNormals == attributes.read /\ ~attributes.hasNormal

C8_DeindexedAfterTangents ==
  (MeshDone /\ mesh.tangentsGenerated) =>
    LET n == Len(mesh.faceVertexIndices) IN
    /\ mesh.faceVertexIndices = [j \in 1..n |-> j - 1]
    /\ mesh.points = n
    /\ Len(mesh.normals) \in {0, n}
    /\ Len(mesh.tangents) = n
    /\ \A j \in 1..Len(mesh.st) : mesh.st[j] \in {0, n}

(***************************************************************************)
(* converter.cpp: Converter::convert and the scene walk.                   *)
(***************************************************************************)
\* the identity of a source entity (its pointer)
Entity(kind, owner, index) == [kind |-> kind, owner |-> owner, index |-> index]

\* a prim of the stage
Prim(path, typeName, specifier, reference) ==
  [path |-> path, typeName |-> typeName, specifier |-> specifier,
   reference |-> reference, displayName |-> NoName, xformOps |-> <<>>]

\* one Define or OverridePrim call: the prim it made, below which parent, and
\* for which source entity
Emission(path, parent, entity, typeName, specifier, reference) ==
  [path |-> path, parent |-> parent, entity |-> entity, typeName |-> typeName,
   specifier |-> specifier, reference |-> reference]

\* <Schema>::Define(m_stage, path)
Define(stg, path, typeName) ==
  IF GetObjectAtPath(stg, path)
  THEN {IF p.path = path
        THEN [p EXCEPT !.typeName = typeName, !.specifier = "def"]
        ELSE p : p \in stg}
  ELSE stg \cup {Prim(path, typeName, "def", "")}

\* an override prim that gets no reference
OverridePrim_noReference(stg, path, target) ==
  IF GetObjectAtPath(stg, path) THEN stg
  ELSE stg \cup {Prim(path, "", "over", "")}

\* lines 1430-1432: m_stage->OverridePrim(path) and AddReference("", target)
OverridePrim(stg, path, target) ==
  IF GetObjectAtPath(stg, path)
  THEN {IF p.path = path THEN [p EXCEPT !.reference = target] ELSE p : p \in stg}
  ELSE stg \cup {Prim(path, "", "over", target)}

\* if (name) prim.SetDisplayName(name)
SetDisplayName(stg, path, name) ==
  IF name.given
  THEN {IF p.path = path THEN [p EXCEPT !.displayName = name] ELSE p : p \in stg}
  ELSE stg

overridePrimInPathMap_neverFound(cache, dataPtr) == FALSE

\* lines 1424-1428: whether m_uniquePaths holds the entity
overridePrimInPathMap(cache, dataPtr) == dataPtr \in DOMAIN cache

\* a path cache that is not written to
Recorded_notWritten(cache, dataPtr, path) == cache

\* m_uniquePaths[dataPtr] = path
Recorded(cache, dataPtr, path) ==
  [e \in DOMAIN cache \cup {dataPtr} |-> IF e = dataPtr THEN path ELSE cache[e]]

\* the errors of a createPrimitive call that fails, with the one of its caller
createMeshPrimitiveErrors(primitive) ==
  IF primitive.positionCount = 0
  THEN {"invalid POSITION accessor", "unable to create primitive; skipping"}
  ELSE {"indices count does not match primitive type",
        "unable to create geometric representation",
        "unable to create primitive; skipping"}

Diagnostic(entity, message) == [entity |-> entity, message |-> message]

\* createMaterialBinding of the prim at path, made for the source primitive
Binding(path, entity, materialName) ==
  [path |-> path, entity |-> entity, material |-> materialName]

DEFAULT_MATERIAL_NAME == "mat"

\* the steps of createNodesRecursively after the one named, in their order
AfterLight(nodeData) ==
  IF nodeData.children # <<>> THEN "children" ELSE "return"
AfterCamera(nodeData) ==
  IF nodeData.light # 0 THEN "light" ELSE AfterLight(nodeData)
AfterMesh(nodeData) ==
  IF nodeData.camera # 0 THEN "camera" ELSE AfterCamera(nodeData)
AfterXform(nodeData) ==
  IF nodeData.mesh # 0 THEN "mesh" ELSE AfterMesh(nodeData)

\* an active call of createNodesRecursively
Frame(node, path, pc) ==
  [node |-> node, path |-> path, pc |-> pc, meshPath |-> "", prim |-> 0,
   child |-> 1]

Top == stack[Len(stack)]
WithTop(frame) == [stack EXCEPT ![Len(stack)] = frame]

\* Converter::convert has not started
ConvertNotStarted ==
  /\ cpc = "start"
  /\ sceneIdx = 0
  /\ rootIdx = 0
  /\ scenePath = ""
  /\ stack = <<>>
  /\ stage = {}
  /\ emitted = <<>>
  /\ uniquePaths = <<>>
  /\ bindings = {}
  /\ diagnostics = {}
  /\ variantSet = NoVariantSet

\* the documents of at most MaxNodes nodes, with no, one or two scenes, and
\* without material variants
Init ==
  /\ \E n \in 1..MaxNodes :
       \E kind \in [1..n -> 1..Len(NodeSamples)],
          parent \in [1..n -> 0..(n - 1)],
          scenes_count \in 0..2 :
         /\ \A i \in 1..n : parent[i] < i
         /\ doc = Document(n, kind, parent, scenes_count, 0, <<>>)
  /\ m_params = [defaultMaterialVariant |-> 0]
  /\ ConvertNotStarted
  /\ MeshIdle
  /\ MtlxIdle
  /\ GucIdle
  /\ NamesIdle

\* naming.cpp lines 53-56
normalizeVariantName(name) == Str(TfMakeValidIdentifier(name))

\* lines 202-272: the root prim and its variant set; the Materials scope,
\* which exists because primitives of the document have no material of their
\* own
BeginConvert ==
  /\ cpc = "start"
  /\ variantSet' =
       IF Len(doc.variants) > 0
       THEN [defined |-> TRUE,
             variants |-> [i \in 1..Len(doc.variants) |->
                             normalizeVariantName(doc.variants[i].name)],
             selection |-> ""]
       ELSE variantSet
  /\ UNCHANGED m_params
  /\ stage' = Define(Define(stage, RootPath, "Xform"), MaterialsPath, "Scope")
  /\ emitted' = emitted \o
       << Emission(RootPath, "", Entity("root", 0, 0), "Xform", "def", ""),
          Emission(MaterialsPath, RootPath, Entity("materials", 0, 0), "Scope",
                   "def", "") >>
  /\ cpc' = IF Len(doc.scenes) > 0 THEN "scenes" ELSE "variant"
  /\ UNCHANGED <<doc, sceneIdx, rootIdx, scenePath, stack, uniquePaths, bindings,
                 diagnostics>>
  /\ UNCHANGED otherThanScene

\* lines 285-304: the Scenes prim before the first scene, then the scene's
\* own Xform
DefineScene ==
  /\ cpc = "scenes"
  /\ LET sceneData == doc.scenes[sceneIdx + 1]
         name == NameOr(sceneData.name, <<"s", "c", "e", "n", "e">>)
         withScenes == IF sceneIdx = 0
                       THEN Define(stage, ScenesPath, "Xform")
                       ELSE stage
         path == makeUniqueStageSubpath(withScenes, ScenesPath, name)
     IN  /\ scenePath' = path
         /\ stage' = Define(withScenes, path, "Xform")
         /\ emitted' = emitted \o
              (IF sceneIdx = 0
               THEN <<Emission(ScenesPath, RootPath, Entity("scenes", 0, 0),
                               "Xform", "def", "")>>
               ELSE <<>>) \o
              <<Emission(path, ScenesPath, Entity("scene", 0, sceneIdx + 1),
                         "Xform", "def", "")>>
  /\ cpc' = "roots"
  /\ rootIdx' = 1
  /\ UNCHANGED <<doc, sceneIdx, stack, uniquePaths, bindings, diagnostics>>
  /\ UNCHANGED <<variantSet, m_params>>
  /\ UNCHANGED otherThanScene

\* an op of a prim's xformOpOrder
XformOp(opType, precision) == [opType |-> opType, precision |-> precision]

\* the ops of both forms for a node that has a matrix
nodeXformOps_bothForms(nodeData) ==
  (IF nodeData.has_matrix THEN <<XformOp("transform", "double")>> ELSE <<>>) \o
  (IF nodeData.has_translation THEN <<XformOp("translate", "float")>> ELSE <<>>) \o
  (IF nodeData.has_rotation THEN <<XformOp("orient", "float")>> ELSE <<>>) \o
  (IF nodeData.has_scale THEN <<XformOp("scale", "float")>> ELSE <<>>)

\* lines 480-513: the ops createNodesRecursively adds to the node's Xform
nodeXformOps(nodeData) ==
  IF nodeData.has_matrix
  THEN <<XformOp("transform", "double")>>
  ELSE (IF nodeData.has_translation
        THEN <<XformOp("translate", "float")>> ELSE <<>>) \o
       (IF nodeData.has_rotation
        THEN <<XformOp("orient", "float")>> ELSE <<>>) \o
       (IF nodeData.has_scale
        THEN <<XformOp("scale", "float")>> ELSE <<>>)

\* xform.Add<...>Op for each op, on the prim at path
AddXformOps(stg, path, ops) ==
  {IF p.path = path THEN [p EXCEPT !.xformOps = @ \o ops] ELSE p : p \in stg}

\* lines 275-281 and 478-513: createNodes picks the node's path below root,
\* and createNodesRecursively starts by defining the node's Xform there and
\* adding its transform ops
EnterNode(node, root) ==
  LET nodeData == doc.nodes[node]
      baseName == NameOr(nodeData.name, <<"n", "o", "d", "e">>)
      nodePath == makeUniqueStageSubpath(stage, root, baseName)
  IN  /\ stage' = AddXformOps(Define(stage, nodePath, "Xform"), nodePath,
                               nodeXformOps(nodeData))
      /\ emitted' = Append(emitted,
           Emission(nodePath, root, Entity("node", 0, node), "Xform", "def", ""))
      /\ stack' = Append(stack, Frame(node, nodePath, AfterXform(nodeData)))

\* lines 306-311 and 350-355: the next root node of the scene, or the next
\* node of a document without scenes
CreateNodes ==
  /\ cpc \in {"roots", "library"}
  /\ stack = <<>>
  /\ LET list == IF cpc = "roots"
                 THEN doc.scenes[sceneIdx + 1].nodes
                 ELSE [i \in 1..Len(doc.nodes) |-> i]
         root == IF cpc = "roots" THEN scenePath ELSE NodesPath
     IN  /\ rootIdx <= Len(list)
         /\ EnterNode(list[rootIdx], root)
  /\ UNCHANGED <<doc, cpc, sceneIdx, rootIdx, scenePath, uniquePaths, bindings,
                 diagnostics>>
  /\ UNCHANGED <<variantSet, m_params>>
  /\ UNCHANGED otherThanScene

\* lines 515-521 and 676: the mesh's path below the node, and its Xform
CreateOrOverMesh ==
  /\ stack # <<>>
  /\ Top.pc = "mesh"
  /\ LET nodeData == doc.nodes[Top.node]
         meshData == doc.meshes[nodeData.mesh]
         meshName == NameOr(meshData.name, <<"m", "e", "s", "h">>)
         meshPath == makeUniqueStageSubpath(stage, Top.path, meshName)
     IN  /\ stage' = Define(stage, meshPath, "Xform")
         /\ emitted' = Append(emitted,
              Emission(meshPath, Top.path, Entity("mesh", 0, nodeData.mesh),
                       "Xform", "def", ""))
         /\ stack' = WithTop([Top EXCEPT !.pc = "primitives",
                                         !.meshPath = meshPath, !.prim = 0])
  /\ UNCHANGED <<doc, cpc, sceneIdx, rootIdx, scenePath, uniquePaths, bindings,
                 diagnostics>>
  /\ UNCHANGED <<variantSet, m_params>>
  /\ UNCHANGED otherThanScene

\* lines 701-705: the name createMaterials gave to a material of the
\* document; the materials are unnamed and the default material exists
getMaterialName(materialIndex) == "mat_" \o Str(to_string(materialIndex + 1))

\* the path of a prim inside a variant of the variant set (the edit target
\* of UsdVariantSet::GetVariantEditContext)
VariantPath(variantName, path) == "{shadingVariant=" \o variantName \o "}" \o path

\* lines 697-735: the material bindings of a primitive, one in each variant
\* it has a mapping for, or one for the default material
materialBindings(mappings, submeshPath, entity) ==
  IF Len(mappings) > 0
  THEN {Binding(VariantPath(normalizeVariantName(
                              doc.variants[mappings[j].variant + 1].name),
                            submeshPath),
                entity, getMaterialName(mappings[j].material)) :
          j \in DOMAIN mappings}
  ELSE {Binding(submeshPath, entity, DEFAULT_MATERIAL_NAME)}

\* lines 711-731: each mapping selects its variant in turn; the selection is
\* cleared after the last one
selectionAfterBindings(mappings) ==
  IF Len(mappings) > 0 THEN [variantSet EXCEPT !.selection = ""]
  ELSE variantSet

\* lines 678-741: one round of the loop over the mesh's primitives
LowerPrimitive ==
  /\ stack # <<>>
  /\ Top.pc = "primitives"
  /\ LET nodeData == doc.nodes[Top.node]
         meshData == doc.meshes[nodeData.mesh]
         i == Top.prim
         primitives_count == Len(meshData.primitives)
         gprim == meshData.primitives[i + 1]
         mappings == IF nodeData.mesh = 1 THEN doc.mappings ELSE <<>>
         entity == Entity("primitive", nodeData.mesh, i)
         submeshName == IF primitives_count = 1
                        THEN <<"s", "u", "b", "m", "e", "s", "h">>
                        ELSE <<"s", "u", "b", "m", "e", "s", "h", "_">>
                               \o to_string(i)
         submeshPath == makeUniqueStageSubpath(stage, Top.meshPath, submeshName)
     IN  /\ IF overridePrimInPathMap(uniquePaths, entity)
            THEN /\ stage' = SetDisplayName(
                               OverridePrim(stage, submeshPath, uniquePaths[entity]),
                               submeshPath, meshData.name)
                 /\ emitted' = Append(emitted,
                      Emission(submeshPath, Top.meshPath, entity, "", "over",
                               uniquePaths[entity]))
                 /\ bindings' = bindings \cup
                      materialBindings(mappings, submeshPath, entity)
                 /\ variantSet' = selectionAfterBindings(mappings)
                 /\ UNCHANGED <<uniquePaths, diagnostics>>
            ELSE IF createMeshPrimitiveSucceeds(gprim)
            THEN /\ stage' = SetDisplayName(Define(stage, submeshPath, "Mesh"),
                                            submeshPath, meshData.name)
                 /\ emitted' = Append(emitted,
                      Emission(submeshPath, Top.meshPath, entity, "Mesh", "def", ""))
                 /\ uniquePaths' = Recorded(uniquePaths, entity, submeshPath)
                 /\ bindings' = bindings \cup
                      materialBindings(mappings, submeshPath, entity)
                 /\ variantSet' = selectionAfterBindings(mappings)
                 /\ UNCHANGED diagnostics
            ELSE \* continue
                 /\ diagnostics' = diagnostics \cup
                      {Diagnostic(entity, message) :
                         message \in createMeshPrimitiveErrors(gprim)}
                 /\ UNCHANGED <<stage, emitted, uniquePaths, bindings,
                                variantSet>>
         /\ stack' = WithTop(IF i + 1 < primitives_count
                             THEN [Top EXCEPT !.prim = i + 1]
                             ELSE [Top EXCEPT !.pc = AfterMesh(nodeData)])
  /\ UNCHANGED <<doc, cpc, sceneIdx, rootIdx, scenePath>>
  /\ UNCHANGED m_params
  /\ UNCHANGED otherThanScene

\* a camera of any type taken for a valid one
cameraTypeIsValid_always(type) == TRUE

\* lines 565-593: the camera types that are converted
cameraTypeIsValid(type) == type \in {"perspective", "orthographic"}

\* lines 523-529 and 556-610
CreateOrOverCamera ==
  /\ stack # <<>>
  /\ Top.pc = "camera"
  /\ LET nodeData == doc.nodes[Top.node]
         cameraData == doc.cameras[nodeData.camera]
         entity == Entity("camera", 0, nodeData.camera)
         camName == NameOr(cameraData.name, <<"c", "a", "m">>)
         camPath == makeUniqueStageSubpath(stage, Top.path, camName)
     IN  IF overridePrimInPathMap(uniquePaths, entity)
         THEN /\ stage' = OverridePrim(stage, camPath, uniquePaths[entity])
              /\ emitted' = Append(emitted,
                   Emission(camPath, Top.path, entity, "", "over",
                            uniquePaths[entity]))
              /\ UNCHANGED <<uniquePaths, diagnostics>>
         ELSE IF cameraTypeIsValid(cameraData.type)
         THEN /\ stage' = SetDisplayName(Define(stage, camPath, "Camera"),
                                         camPath, cameraData.name)
              /\ emitted' = Append(emitted,
                   Emission(camPath, Top.path, entity, "Camera", "def", ""))
              /\ uniquePaths' = Recorded(uniquePaths, entity, camPath)
              /\ UNCHANGED diagnostics
         ELSE /\ diagnostics' = diagnostics \cup
                   {Diagnostic(entity, "invalid camera type; skipping")}
              /\ UNCHANGED <<stage, emitted, uniquePaths>>
  /\ stack' = WithTop([Top EXCEPT !.pc = AfterCamera(doc.nodes[Top.node])])
  /\ UNCHANGED <<doc, cpc, sceneIdx, rootIdx, scenePath, bindings>>
  /\ UNCHANGED <<variantSet, m_params>>
  /\ UNCHANGED otherThanScene

\* lines 620-657: the light types that are converted
lightTypeIsValid(type) == type \in {"directional", "point", "spot"}

\* lines 531-537 and 612-672
CreateOrOverLight ==
  /\ stack # <<>>
  /\ Top.pc = "light"
  /\ LET nodeData == doc.nodes[Top.node]
         lightData == doc.lights[nodeData.light]
         entity == Entity("light", 0, nodeData.light)
         lightName == NameOr(lightData.name, <<"l", "i", "g", "h", "t">>)
         lightPath == makeUniqueStageSubpath(stage, Top.path, lightName)
     IN  IF overridePrimInPathMap(uniquePaths, entity)
         THEN /\ stage' = OverridePrim(stage, lightPath, uniquePaths[entity])
              /\ emitted' = Append(emitted,
                   Emission(lightPath, Top.path, entity, "", "over",
                            uniquePaths[entity]))
              /\ UNCHANGED <<uniquePaths, diagnostics>>
         ELSE IF lightTypeIsValid(lightData.type)
         THEN /\ stage' = SetDisplayName(
                            Define(stage, lightPath,
                                   IF lightData.type = "directional"
                                   THEN "DistantLight" ELSE "SphereLight"),
                            lightPath, lightData.name)
              /\ emitted' = Append(emitted,
                   Emission(lightPath, Top.path, entity,
                            IF lightData.type = "directional"
                            THEN "DistantLight" ELSE "SphereLight", "def", ""))
              /\ uniquePaths' = Recorded(uniquePaths, entity, lightPath)
              /\ UNCHANGED diagnostics
         ELSE /\ diagnostics' = diagnostics \cup
                   {Diagnostic(entity, "invalid light type; skipping")}
              /\ UNCHANGED <<stage, emitted, uniquePaths>>
  /\ stack' = WithTop([Top EXCEPT !.pc = AfterLight(doc.nodes[Top.node])])
  /\ UNCHANGED <<doc, cpc, sceneIdx, rootIdx, scenePath, bindings>>
  /\ UNCHANGED <<variantSet, m_params>>
  /\ UNCHANGED otherThanScene

\* lines 539-547 and 478-513: the next child's path below the node, and the
\* call for it, which starts by defining the child's Xform and adding its
\* transform ops
VisitChild ==
  /\ stack # <<>>
  /\ Top.pc = "children"
  /\ LET node == Top.node
         path == Top.path
         childNodeData == doc.nodes[node].children[Top.child]
         childName == NameOr(doc.nodes[childNodeData].name, <<"n", "o", "d", "e">>)
         childNodePath == makeUniqueStageSubpath(stage, path, childName)
     IN  /\ stage' = AddXformOps(Define(stage, childNodePath, "Xform"),
                                  childNodePath,
                                  nodeXformOps(doc.nodes[childNodeData]))
         /\ emitted' = Append(emitted,
              Emission(childNodePath, path, Entity("node", 0, childNodeData),
                       "Xform", "def", ""))
         /\ stack' = Append(WithTop([Top EXCEPT !.pc = "child"]),
                            Frame(childNodeData, childNodePath,
                                  AfterXform(doc.nodes[childNodeData])))
  /\ UNCHANGED <<doc, cpc, sceneIdx, rootIdx, scenePath, uniquePaths, bindings,
                 diagnostics>>
  /\ UNCHANGED <<variantSet, m_params>>
  /\ UNCHANGED otherThanScene

\* lines 549-553: the node's display name; the call returns, to the loop over
\* the caller's children or to the loop over the root nodes
ReturnFromNode ==
  /\ stack # <<>>
  /\ Top.pc = "return"
  /\ stage' = SetDisplayName(stage, Top.path, doc.nodes[Top.node].name)
  /\ IF Len(stack) = 1
     THEN /\ stack' = <<>>
          /\ rootIdx' = rootIdx + 1
     ELSE LET caller == stack[Len(stack) - 1]
              children_count == Len(doc.nodes[caller.node].children)
              resumed == IF caller.child + 1 <= children_count
                         THEN [caller EXCEPT !.pc = "children",
                                             !.child = caller.child + 1]
                         ELSE [caller EXCEPT !.pc = "return"]
          IN  /\ stack' = Append(SubSeq(stack, 1, Len(stack) - 2), resumed)
              /\ UNCHANGED rootIdx
  /\ UNCHANGED <<doc, cpc, sceneIdx, scenePath, emitted, uniquePaths, bindings,
                 diagnostics>>
  /\ UNCHANGED <<variantSet, m_params>>
  /\ UNCHANGED otherThanScene

\* lines 313-317: after the scene's root nodes, its display name; then the
\* next scene
FinishScene ==
  /\ cpc = "roots"
  /\ stack = <<>>
  /\ rootIdx > Len(doc.scenes[sceneIdx + 1].nodes)
  /\ stage' = SetDisplayName(stage, scenePath, doc.scenes[sceneIdx + 1].name)
  /\ sceneIdx' = sceneIdx + 1
  /\ rootIdx' = 0
  /\ cpc' = IF sceneIdx + 1 < Len(doc.scenes) THEN "scenes" ELSE "variant"
  /\ UNCHANGED <<doc, scenePath, stack, emitted, uniquePaths, bindings,
                 diagnostics>>
  /\ UNCHANGED <<variantSet, m_params>>
  /\ UNCHANGED otherThanScene

\* lines 324-330: the test of the index asked for
variantIndexOutOfRange(variantIndex, variants_count) ==
  variantIndex < 0 \/ variantIndex >= variants_count

\* an index above the range replaced by the last index
defaultVariantIndex_clamped(requested, variants_count) ==
  IF requested < 0 THEN 0
  ELSE IF requested >= variants_count THEN variants_count - 1
  ELSE requested

\* lines 322-330: the index of the variant that is selected
defaultVariantIndex(requested, variants_count) ==
  IF variantIndexOutOfRange(requested, variants_count) THEN 0 ELSE requested

\* lines 320-338: the default material variant is selected; an index out of
\* range is reported and replaced by 0.  convert returns here if the document
\* has scenes.
AssignDefaultVariant ==
  /\ cpc = "variant"
  /\ LET variants_count == Len(doc.variants)
         requested == m_params.defaultMaterialVariant
         outOfRange == variantIndexOutOfRange(requested, variants_count)
         variantIndex == defaultVariantIndex(requested, variants_count)
     IN  IF variants_count > 0
         THEN /\ diagnostics' = diagnostics \cup
                   (IF outOfRange
                    THEN {Diagnostic(Entity("variants", 0, 0),
                            "default material variant index out of range; using 0")}
                    ELSE {})
              /\ variantSet' =
                   [variantSet EXCEPT !.selection =
                      normalizeVariantName(doc.variants[variantIndex + 1].name)]
         ELSE UNCHANGED <<diagnostics, variantSet>>
  /\ cpc' = IF Len(doc.scenes) = 0 THEN "nodes" ELSE "done"
  /\ UNCHANGED <<doc, sceneIdx, rootIdx, scenePath, stack, stage, emitted,
                 uniquePaths, bindings, m_params>>
  /\ UNCHANGED otherThanScene

\* lines 343-348: the Nodes scope of a document without scenes
DefineNodesScope ==
  /\ cpc = "nodes"
  /\ stage' = Define(stage, NodesPath, "Scope")
  /\ emitted' = Append(emitted,
       Emission(NodesPath, RootPath, Entity("nodes", 0, 0), "Scope", "def", ""))
  /\ cpc' = "library"
  /\ rootIdx' = 1
  /\ UNCHANGED <<doc, sceneIdx, scenePath, stack, uniquePaths, bindings,
                 diagnostics>>
  /\ UNCHANGED <<variantSet, m_params>>
  /\ UNCHANGED otherThanScene

\* lines 350-357: every node of the document has been handed to createNodes
FinishLibrary ==
  /\ cpc = "library"
  /\ stack = <<>>
  /\ rootIdx > Len(doc.nodes)
  /\ cpc' = "done"
  /\ UNCHANGED <<doc, sceneIdx, rootIdx, scenePath, stack, stage, emitted,
                 uniquePaths, bindings, diagnostics>>
  /\ UNCHANGED <<variantSet, m_params>>
  /\ UNCHANGED otherThanScene

Next ==
  \/ BeginConvert
  \/ DefineScene
  \/ CreateNodes
  \/ CreateOrOverMesh
  \/ LowerPrimitive
  \/ CreateOrOverCamera
  \/ CreateOrOverLight
  \/ VisitChild
  \/ ReturnFromNode
  \/ FinishScene
  \/ AssignDefaultVariant
  \/ DefineNodesScope
  \/ FinishLibrary

Spec == Init /\ [][Next]_vars

\* documents with material variants: nodes that share the first mesh, a
\* camera and a light, and empty nodes; the primitive of the mesh has a
\* mapping for every variant, or none; the default variant asked for is in
\* or out of range
MaxVariants == 2
VariantNodeKinds == {4, 6}
DefaultVariantSamples == {-1, 0, 1, MaxVariants, MaxVariants + 3}

InitVariants ==
  /\ \E n \in 1..MaxNodes :
       \E kind \in [1..n -> VariantNodeKinds],
          parent \in [1..n -> 0..(n - 1)],
          scenes_count \in 0..2,
          variants_count \in 1..MaxVariants,
          mapped \in BOOLEAN :
         /\ \A i \in 1..n : parent[i] < i
         /\ doc = Document(n, kind, parent, scenes_count, variants_count,
                           IF mapped THEN Mappings(variants_count) ELSE <<>>)
  /\ \E defaultMaterialVariant \in DefaultVariantSamples :
       m_params = [defaultMaterialVariant |-> defaultMaterialVariant]
  /\ ConvertNotStarted
  /\ MeshIdle
  /\ MtlxIdle
  /\ GucIdle
  /\ NamesIdle

SpecVariants == InitVariants /\ [][Next]_vars

\* documents whose nodes have transforms: every combination of has_matrix,
\* has_translation, has_rotation and has_scale, on nodes with a mesh, a
\* camera and a light and on empty nodes, in one scene or in none
TransformFlags ==
  [has_matrix : BOOLEAN, has_translation : BOOLEAN, has_rotation : BOOLEAN,
   has_scale : BOOLEAN]

XformNodeKinds == {4, 6}

\* the document with node i given the flags transform[i]
WithTransforms(document, transform) ==
  [document EXCEPT !.nodes =
     [i \in DOMAIN document.nodes |->
        [document.nodes[i] EXCEPT
           !.has_matrix = transform[i].has_matrix,
           !.has_translation = transform[i].has_translation,
           !.has_rotation = transform[i].has_rotation,
           !.has_scale = transform[i].has_scale]]]

InitXform ==
  /\ \E n \in 1..MaxNodes :
       \E kind \in [1..n -> XformNodeKinds],
          parent \in [1..n -> 0..(n - 1)],
          scenes_count \in 0..1,
          transform \in [1..n -> TransformFlags] :
         /\ \A i \in 1..n : parent[i] < i
         /\ doc = WithTransforms(Document(n, kind, parent, scenes_count, 0, <<>>),
                                 transform)
  /\ m_params = [defaultMaterialVariant |-> 0]
  /\ ConvertNotStarted
  /\ MeshIdle
  /\ MtlxIdle
  /\ GucIdle
  /\ NamesIdle

SpecXform == InitXform /\ [][Next]_vars

(***************************************************************************)
(* Properties of the scene walk (specification Spec).                      *)
(***************************************************************************)
Emissions == {emitted[k] : k \in DOMAIN emitted}

\* the positions in the log of the emissions made for a source entity
EmissionsOf(entity) == {k \in DOMAIN emitted : emitted[k].entity = entity}

StagePrim(path) == CHOOSE p \in stage : p.path = path

\* a typed, defined prim that refers to nothing: the result of full lowering
FullyLowered(r) ==
  /\ r.specifier = "def" /\ r.typeName # "" /\ r.reference = ""
  /\ GetObjectAtPath(stage, r.path)
  /\ StagePrim(r.path).specifier = "def"
  /\ StagePrim(r.path).typeName = r.typeName
  /\ StagePrim(r.path).reference = ""

\* an untyped override prim whose reference is the target
ReferenceOnly(r, target) ==
  /\ r.specifier = "over" /\ r.typeName = "" /\ r.reference = target
  /\ GetObjectAtPath(stage, r.path)
  /\ StagePrim(r.path).specifier = "over"
  /\ StagePrim(r.path).typeName = ""
  /\ StagePrim(r.path).reference = target

\* the nodes below which a node lies
RECURSIVE Ancestors(_)
Ancestors(node) ==
  LET parents == {a \in DOMAIN doc.nodes : node \in Range(doc.nodes[a].children)}
  IN  parents \cup UNION {Ancestors(a) : a \in parents}

\* how often one conversion calls createNodesRecursively for a node: once in
\* every scene, or, without scenes, once for itself and once below each of
\* its ancestors
Visits(node) ==
  IF Len(doc.scenes) > 0 THEN Len(doc.scenes)
  ELSE 1 + Cardinality(Ancestors(node))

RECURSIVE SumVisits(_)
SumVisits(nodes) ==
  IF nodes = {} THEN 0
  ELSE LET node == CHOOSE n \in nodes : TRUE
       IN  Visits(node) + SumVisits(nodes \ {node})

\* the nodes that refer to a mesh primitive, a camera or a light
NodesOf(entity) ==
  {n \in DOMAIN doc.nodes :
     CASE entity.kind = "primitive" -> doc.nodes[n].mesh = entity.owner
       [] entity.kind = "camera" -> doc.nodes[n].camera = entity.index
       [] entity.kind = "light" -> doc.nodes[n].light = entity.index
       [] OTHER -> FALSE}

\* whether the source entity can be lowered
Lowers(entity) ==
  CASE entity.kind = "primitive" ->
         createMeshPrimitiveSucceeds(
           doc.meshes[entity.owner].primitives[entity.index + 1])
    [] entity.kind = "camera" -> doc.cameras[entity.index].type # "invalid"
    [] entity.kind = "light" -> doc.lights[entity.index].type # "invalid"
    [] OTHER -> FALSE

\* the mesh primitives, cameras and lights of the document
SharedEntities ==
  UNION {{Entity("primitive", m, i - 1) : i \in DOMAIN doc.meshes[m].primitives} :
           m \in DOMAIN doc.meshes} \cup
  {Entity("camera", 0, c) : c \in DOMAIN doc.cameras} \cup
  {Entity("light", 0, l) : l \in DOMAIN doc.lights}

\* C1: a mesh primitive, camera or light that can be lowered is fully
\* lowered by the first emission made for it, and only by that one, and the
\* path cache holds that emission's path; every later emission for it is an
\* untyped override prim whose reference is that path.  When the conversion
\* is over, one emission has been made for each visit of each node that
\* refers to the entity, so two sibling nodes sharing a mesh of one primitive
\* leave one fully lowered prim and one reference-only prim.
C1_LoweredOnceThenReferenced ==
  /\ \A k \in DOMAIN emitted :
       LET r == emitted[k]
           earlier == {j \in 1..(k - 1) : emitted[j].entity = r.entity}
       IN  r.entity.kind \in {"primitive", "camera", "light"} =>
             IF earlier = {}
             THEN /\ FullyLowered(r)
                  /\ r.entity \in DOMAIN uniquePaths
                  /\ uniquePaths[r.entity] = r.path
             ELSE ReferenceOnly(r, emitted[CHOOSE j \in earlier :
                                             \A l \in earlier : j <= l].path)
  /\ cpc = "done" =>
       \A e \in SharedEntities :
         Lowers(e) =>
           /\ Cardinality(EmissionsOf(e)) = SumVisits(NodesOf(e))
           /\ NodesOf(e) # {} =>
                Cardinality({k \in EmissionsOf(e) : emitted[k].specifier = "def"}) = 1

\* two sibling root nodes of one scene share the mesh of one primitive; the
\* conversion is over and has made two emissions for the primitive
C1_Witness ==
  /\ cpc = "done"
  /\ Len(doc.scenes) = 1
  /\ Len(doc.nodes) = 2
  /\ doc.scenes[1].nodes = <<1, 2>>
  /\ doc.nodes[1].mesh = 1 /\ doc.nodes[2].mesh = 1
  /\ Cardinality(EmissionsOf(Entity("primitive", 1, 0))) = 2

\* the base names the converter hands to makeUniqueStageSubpath: of a scene,
\* of a node, of what a node refers to, of a primitive
SceneNames == { <<"s", "c", "e", "n", "e">> }
NodeNames == { <<"n", "o", "d", "e">>, <<"a">> }
ContentNames ==
  { <<"m", "e", "s", "h">>, <<"c", "a", "m">>, <<"l", "i", "g", "h", "t">>,
    <<"a">>, <<"a", " ", "1">>, <<"l">> }
SubmeshNames ==
  { <<"s", "u", "b", "m", "e", "s", "h">> } \cup
  { <<"s", "u", "b", "m", "e", "s", "h", "_">> \o to_string(i) :
      i \in 0..(Len(PrimitiveSamples) - 1) }

\* the calls of makeUniqueStageSubpath the walk may make from here on: for a
\* scene, for a root node, and, in the active calls, for a child node, for
\* what a node refers to, and for a primitive of its mesh
Requests ==
  {<<root, name>> : root \in {ScenesPath}, name \in SceneNames} \cup
  {<<root, name>> : root \in {scenePath, NodesPath}, name \in NodeNames} \cup
  {<<stack[k].path, name>> :
     k \in DOMAIN stack, name \in NodeNames \cup ContentNames} \cup
  {<<stack[k].meshPath, name>> : k \in DOMAIN stack, name \in SubmeshNames}

\* the k-th path makeUniqueStageSubpath tries
Candidate(root, baseName, k) ==
  IF k = 0 THEN root \o "/" \o Str(TfMakeValidIdentifier(baseName))
  ELSE root \o "/" \o Str(TfMakeValidIdentifier(baseName)) \o "_"
         \o Str(to_string(k))

\* C2: at every moment of the conversion, the path makeUniqueStageSubpath
\* returns for a root that is on the stage and a base name is unoccupied on
\* the stage: it is the root extended by the sanitized base name, or by the
\* first of base_1, base_2, ... that is free, all candidates before it being
\* occupied.  No two emissions of a conversion have the same path.
C2_UniquePaths ==
  /\ \A request \in Requests :
       LET root == request[1]
           baseName == request[2]
           path == makeUniqueStageSubpath(stage, root, baseName)
       IN  GetObjectAtPath(stage, root) =>
             /\ ~GetObjectAtPath(stage, path)
             /\ \E k \in 0..Cardinality(stage) :
                  /\ path = Candidate(root, baseName, k)
                  /\ \A j \in 0..(k - 1) :
                       GetObjectAtPath(stage, Candidate(root, baseName, j))
  /\ \A j, k \in DOMAIN emitted : j # k => emitted[j].path # emitted[k].path

\* below one node the mesh "a" got the path a, the camera "a 1" the path a_1,
\* so that the child node "a" got a_2
C2_Witness ==
  \E r \in Emissions :
    /\ r.entity.kind = "node"
    /\ r.path = r.parent \o "/a_2"
    /\ \E c \in Emissions : c.entity.kind = "camera" /\ c.path = r.parent \o "/a_1"

PrimitiveOf(entity) == doc.meshes[entity.owner].primitives[entity.index + 1]

\* the index count of a primitive is against the requirement of its kind
ViolatesIndexCount(primitive) ==
  LET count == Len(readIndices(primitive))
  IN  CASE primitive.type = "lines" -> count % 2 # 0
        [] primitive.type = "triangles" -> count % 3 # 0
        [] primitive.type \in {"line_strip", "line_loop"} -> count < 2
        [] primitive.type \in {"triangle_strip", "triangle_fan"} -> count < 3
        [] OTHER -> FALSE

\* the primitives of the document whose index count is against the requirement
ViolatingPrimitives ==
  {e \in SharedEntities : e.kind = "primitive" /\ ViolatesIndexCount(PrimitiveOf(e))}

\* the emissions of the Xform of a mesh
MeshEmissions(m) == {r \in Emissions : r.entity = Entity("mesh", 0, m)}

\* C6: for a primitive whose index count is against the requirement of its
\* kind createGeometryRepresentation returns false.  Such a primitive is never
\* emitted, never enters the path cache, never gets a material binding, and
\* no prim lies at its submesh path; when the conversion is over its errors
\* have been reported for every mesh that was visited.  The rest is converted
\* all the same: below every emitted mesh each of its other primitives has
\* been emitted, and every node has been emitted once for each of its visits.
C6_OnlyOwningPrimitiveSkipped ==
  /\ \A e \in ViolatingPrimitives :
       /\ ~createGeometryRepresentation(PrimitiveOf(e).type,
                                        readIndices(PrimitiveOf(e))).ok
       /\ EmissionsOf(e) = {}
       /\ e \notin DOMAIN uniquePaths
       /\ \A b \in bindings : b.entity # e
       /\ \A r \in MeshEmissions(e.owner) :
            ~GetObjectAtPath(stage,
               r.path \o "/submesh_" \o Str(to_string(e.index)))
  /\ cpc = "done" =>
       /\ \A e \in ViolatingPrimitives :
            MeshEmissions(e.owner) # {} =>
              \A message \in {"indices count does not match primitive type",
                              "unable to create geometric representation",
                              "unable to create primitive; skipping"} :
                Diagnostic(e, message) \in diagnostics
       /\ \A e \in SharedEntities \ ViolatingPrimitives :
            e.kind = "primitive" =>
              \A r \in MeshEmissions(e.owner) :
                \E s \in Emissions :
                  /\ s.entity = e /\ s.parent = r.path
                  /\ \E b \in bindings : b.path = s.path /\ b.entity = e
       /\ \A n \in DOMAIN doc.nodes :
            /\ Cardinality(EmissionsOf(Entity("node", 0, n))) = Visits(n)
            /\ doc.nodes[n].mesh # 0 =>
                 \A r \in Emissions :
                   r.entity = Entity("node", 0, n) =>
                     \E s \in MeshEmissions(doc.nodes[n].mesh) : s.parent = r.path

\* the conversion of a document of two nodes is over; the first node refers
\* to the mesh of seven primitives: six were skipped with an error, the
\* seventh was emitted, and so was the second node
C6_Witness ==
  /\ cpc = "done"
  /\ Len(doc.nodes) = 2
  /\ doc.nodes[1].mesh = 2
  /\ \A i \in 0..5 :
       Diagnostic(Entity("primitive", 2, i),
                  "indices count does not match primitive type") \in diagnostics
  /\ EmissionsOf(Entity("primitive", 2, 6)) # {}
  /\ EmissionsOf(Entity("node", 0, 2)) # {}


(***************************************************************************)
(* materialx.cpp: the MaterialX document a material is lowered to.         *)
(* A float is an integer number of units of 1e-7.                          *)
(***************************************************************************)
Unit == 10 * 1000 * 1000
Milli(x) == x * (Unit \div 1000)

MTLX_COLORSPACE_SRGB == "srgb_texture"
MTLX_COLORSPACE_LINEAR == "lin_rec709"

\* a local variable: the body at a value that is computed once
Let(value, Body(_)) == CHOOSE result \in {Body(v) : v \in {value}} : TRUE

\* mx::Value: a type and its components
NoValue == [type |-> "", data |-> <<>>]
FloatValue(x) == [type |-> "float", data |-> <<x>>]
IntegerValue(i) == [type |-> "integer", data |-> <<i>>]
StringValue(s) == [type |-> "string", data |-> <<s>>]
Vector2Value(x, y) == [type |-> "vector2", data |-> <<x, y>>]
Color3Value(r, g, b) == [type |-> "color3", data |-> <<r, g, b>>]
Vector3Value(x, y, z) == [type |-> "vector3", data |-> <<x, y, z>>]

\* Value::getValueString: the components, without the type
getValueString(value) == value.data

\* an input element and its attributes
Input(name, type) ==
  [name |-> name, type |-> type, value |-> NoValue, nodeName |-> "",
   output |-> "", nodeGraph |-> "", colorspace |-> ""]

\* input->setValue(value): the value attribute and the type attribute
setValue(input, value) == [input EXCEPT !.value = value, !.type = value.type]

\* input->setValueString(string): the string is read in the input's type
setValueString(input, string) ==
  [input EXCEPT !.value = [type |-> input.type, data |-> string]]

setNodeName(input, nodeName) == [input EXCEPT !.nodeName = nodeName]

\* input->hasValue(): the value attribute is there
hasValue(input) == input.value # NoValue

\* the input names a node, or an output of a node graph
isConnected(input) ==
  input.nodeName # "" \/ input.output # "" \/ input.nodeGraph # ""

\* addInput(name, type) followed by setValue, setValueString or setNodeName
Literal(name, value) == setValue(Input(name, value.type), value)
LiteralString(name, type, string) == setValueString(Input(name, type), string)
Connected(name, type, nodeName) == setNodeName(Input(name, type), nodeName)

\* a node element
Node(name, category, type, inputs) ==
  [name |-> name, category |-> category, type |-> type, inputs |-> inputs,
   colorspace |-> ""]

\* node->addInput(name, type)
addInput(node, name, type) ==
  [node EXCEPT !.inputs = Append(@, Input(name, type))]

\* node->removeInput(name)
removeInput(node, name) ==
  [node EXCEPT !.inputs = SelectSeq(@, LAMBDA input : input.name # name)]

hasInput(node, name) ==
  \E k \in DOMAIN node.inputs : node.inputs[k].name = name

\* node->getInput(name)
getInput(node, name) ==
  node.inputs[CHOOSE k \in DOMAIN node.inputs : node.inputs[k].name = name]

\* the node after a change made through an input pointer
WithInput(node, input) ==
  [node EXCEPT !.inputs =
     [k \in DOMAIN @ |-> IF @[k].name = input.name THEN input ELSE @[k]]]

\* a node graph element, with ret the node the last helper returned
NodeGraph(name) ==
  [name |-> name, nodes |-> <<>>, outputs |-> <<>>,
   ret |-> [name |-> "", type |-> ""]]

\* the name addNode gives a node created with an empty name: the category
\* and the first number from 1 on that no child of the graph has
RECURSIVE createValidChildName(_, _, _)
createValidChildName(graph, category, k) ==
  IF \E j \in DOMAIN graph.nodes :
       graph.nodes[j].name = category \o Str(to_string(k))
  THEN createValidChildName(graph, category, k + 1)
  ELSE category \o Str(to_string(k))

\* nodeGraph->addNode(category, mx::EMPTY_STRING, type), and its inputs
addNode(graph, category, type, inputs) ==
  Let(graph, LAMBDA nodeGraph :
  Let(createValidChildName(nodeGraph, category, 1), LAMBDA name :
    [nodeGraph EXCEPT !.nodes = Append(@, Node(name, category, type, inputs)),
                      !.ret = [name |-> name, type |-> type]]))

\* the inputs of a node that was created before the nodes it reads
setInputs(graph, name, inputs) ==
  [graph EXCEPT !.nodes =
     [k \in DOMAIN @ |-> IF @[k].name = name
                          THEN [@[k] EXCEPT !.inputs = inputs] ELSE @[k]]]

\* an earlier node taken up again
Returning(graph, ret) == [graph EXCEPT !.ret = ret]

\* lines 216-224
makeClampNode(graph) ==
  addNode(graph, "clamp", graph.ret.type,
          <<Connected("in", graph.ret.type, graph.ret.name)>>)

\* a multiplication that is never skipped
makeMultiplyFactorNodeIfNecessary_always(graph, factor) ==
  addNode(graph, "multiply", factor.type,
          << Connected("in1", graph.ret.type, graph.ret.name),
             LiteralString("in2", factor.type, getValueString(factor)) >>)

\* lines 226-246: no node for a factor of one
makeMultiplyFactorNodeIfNecessary(graph, factor) ==
  IF factor \in {FloatValue(Unit), Vector3Value(Unit, Unit, Unit),
                 Color3Value(Unit, Unit, Unit)}
  THEN graph
  ELSE addNode(graph, "multiply", factor.type,
               << Connected("in1", graph.ret.type, graph.ret.name),
                  LiteralString("in2", factor.type, getValueString(factor)) >>)

\* a channel that is left as the texture has it
makeSrgbToLinearConversionNodes_none(graph) == graph

\* lines 250-306
makeSrgbToLinearConversionNodes(graph) ==
  Let(addNode(graph, "divide", "float",
        << Connected("in1", "float", graph.ret.name),
           Literal("in2", FloatValue(Milli(12920))) >>),
      LAMBDA leftBranch :
  Let(addNode(leftBranch, "power", "float", <<>>),
      LAMBDA rightBranch :
  Let(addNode(rightBranch, "add", "float",
        << Connected("in1", "float", graph.ret.name),
           Literal("in2", FloatValue(Milli(55))) >>),
      LAMBDA added :
  Let(addNode(added, "divide", "float",
        << Connected("in1", "float", added.ret.name),
           Literal("in2", FloatValue(Milli(1055))) >>),
      LAMBDA divided :
  Let(addNode(setInputs(divided, rightBranch.ret.name,
                << Connected("in1", "float", divided.ret.name),
                   Literal("in2", FloatValue(Milli(2400))) >>),
              "ifgreatereq", "float",
        << Literal("value1", FloatValue(404500)),
           Connected("value2", "float", graph.ret.name),
           Connected("in1", "float", leftBranch.ret.name),
           Connected("in2", "float", rightBranch.ret.name) >>),
      LAMBDA ifGrEqNode : makeClampNode(ifGrEqNode))))))

\* lines 308-350
makeLinearToSrgbConversionNodes(graph) ==
  Let(makeMultiplyFactorNodeIfNecessary(graph, FloatValue(Milli(12920))),
      LAMBDA leftBranch :
  Let(addNode(leftBranch, "subtract", "float", <<>>),
      LAMBDA rightBranch :
  Let(addNode(rightBranch, "power", "float",
        << Connected("in1", "float", graph.ret.name),
           Literal("in2", FloatValue(4166667)) >>),
      LAMBDA powerNode :
  Let(makeMultiplyFactorNodeIfNecessary(powerNode, FloatValue(Milli(1055))),
      LAMBDA multiplyNode :
  Let(addNode(setInputs(multiplyNode, rightBranch.ret.name,
                << Connected("in1", "float", multiplyNode.ret.name),
                   Literal("in2", FloatValue(Milli(55))) >>),
              "ifgreatereq", "float",
        << Literal("value1", FloatValue(31308)),
           Connected("value2", "float", graph.ret.name),
           Connected("in1", "float", leftBranch.ret.name),
           Connected("in2", "float", rightBranch.ret.name) >>),
      LAMBDA ifGrEqNode : makeClampNode(ifGrEqNode))))))

\* lines 352-363
makeExtractChannelNode(graph, index) ==
  addNode(graph, "extract", "float",
          << Connected("in", graph.ret.type, graph.ret.name),
             Literal("index", IntegerValue(index)) >>)

\* lines 365-373
makeConversionNode(graph, destType) ==
  addNode(graph, "convert", destType,
          <<Connected("in", graph.ret.type, graph.ret.name)>>)

\* lines 375-389
makeVectorToWorldSpaceNode(graph) ==
  addNode(graph, "transformvector", graph.ret.type,
          << Connected("in", graph.ret.type, graph.ret.name),
             Literal("fromspace", StringValue("object")),
             Literal("tospace", StringValue("world")) >>)

\* lines 391-399
makeNormalizeNode(graph) ==
  addNode(graph, "normalize", "vector3",
          <<Connected("in", "vector3", graph.ret.name)>>)

\* lines 68-78, at the values the defaults of the converter take (0, 1/2, 1);
\* 1.055 * 0.5^(1/2.4) - 0.055 = 0.7353570
convertLinearFloatToSrgb(in) ==
  IF in <= 31308 THEN (1292 * in) \div 100
  ELSE IF in >= Unit THEN Unit
  ELSE 7353570

\* lines 80-96
convertFloat3ValueToSrgb(value) ==
  [value EXCEPT !.data = [k \in DOMAIN @ |-> convertLinearFloatToSrgb(@[k])]]

\* lines 98-120
getMtlxFilterType(filter) ==
  CASE filter \in {9728, 9984, 9986} -> "closest"
    [] filter \in {9729, 9985, 9987} -> "linear"
    [] OTHER -> ""

\* lines 122-137
getMtlxAddressMode(addressMode) ==
  CASE addressMode = 33071 -> "clamp"
    [] addressMode = 33648 -> "mirror"
    [] OTHER -> "periodic"

\* lines 143-214: the default value in the layout of the texture type; the
\* constructors taking one float fill every component with it
getTextureTypeAdjustedDefaultValueString(defaultValue, textureType) ==
  LET v == defaultValue.data
  IN  IF defaultValue.type = textureType
         /\ textureType \in {"float", "color3", "vector3"}
      THEN v
      ELSE IF defaultValue.type = "color3"
      THEN CASE textureType = "color4" -> <<v[1], v[2], v[3], Unit>>
             [] textureType = "vector2" -> <<v[1], v[1]>>
             [] textureType = "float" -> <<v[1]>>
             [] OTHER -> <<>>
      ELSE IF defaultValue.type = "vector3"
      THEN CASE textureType = "vector4" -> <<v[1], v[2], v[3], Unit>>
             [] textureType = "vector2" -> <<v[1], v[1]>>
             [] textureType = "float" -> <<v[1]>>
             [] OTHER -> <<>>
      ELSE IF defaultValue.type = "float"
      THEN CASE textureType = "vector2" -> <<v[1], v[1]>>
             [] textureType \in {"color3", "vector3"} -> <<v[1], v[1], v[1]>>
             [] textureType \in {"color4", "vector4"} ->
                  <<v[1], v[1], v[1], v[1]>>
             [] OTHER -> <<>>
      ELSE <<>>

(***************************************************************************)
(* Texture views, and the image metadata the converter was constructed     *)
(* with.  isSrgbInUSD is never assigned in the sources, so every image     *)
(* comes with either value.                                                *)
(***************************************************************************)
ChannelCounts == 1..4

\* m_imageMetadataMap: image |-> metadata; filePath is where the image
\* was written (image.cpp line 346), refPath what a document refers to it by
m_imageMetadataMap ==
  [image \in ChannelCounts \X BOOLEAN |->
     [filePath |-> "dst/image" \o Str(to_string(image[1])) \o ".png",
      refPath |-> "image" \o Str(to_string(image[1])) \o ".png",
      channelCount |-> image[1],
      isSrgbInUSD |-> image[2]]]

\* cgltf_texture_transform
NoTransform ==
  [has_texcoord |-> FALSE, texcoord |-> 0, offset |-> <<0, 0>>,
   rotation |-> 0, scale |-> <<Unit, Unit>>]

\* cgltf_texture_view of a null texture; sampler is texture->sampler
NoTextureView ==
  [texture |-> FALSE, image |-> <<>>, sampler |-> FALSE, min_filter |-> 0,
   mag_filter |-> 0, wrap_s |-> 0, wrap_t |-> 0, texcoord |-> 0,
   scale |-> Unit, has_transform |-> FALSE, transform |-> NoTransform]

\* a texture with that image and no sampler; <<>> is the null image
TextureView(image) == [NoTextureView EXCEPT !.texture = TRUE, !.image = image]

\* lines 1381-1403
getTextureMetadata(textureView) ==
  IF ~textureView.texture THEN [found |-> FALSE]
  ELSE IF textureView.image = <<>> THEN [found |-> FALSE]
  ELSE IF textureView.image \notin DOMAIN m_imageMetadataMap
  THEN [found |-> FALSE]
  ELSE [found |-> TRUE, metadata |-> m_imageMetadataMap[textureView.image]]

\* lines 1405-1414
getTextureFilePath(textureView) ==
  LET result == getTextureMetadata(textureView)
  IN  IF result.found
      THEN [found |-> TRUE, filePath |-> result.metadata.refPath]
      ELSE [found |-> FALSE]

\* lines 1416-1421
isTextureSrgbInUsd(textureView) ==
  getTextureMetadata(textureView).metadata.isSrgbInUSD

\* lines 1423-1428
getTextureChannelCount(textureView) ==
  getTextureMetadata(textureView).metadata.channelCount

\* a value type that ignores whether a color is asked for
getTextureValueType_ignoringColor(textureView, color) ==
  LET channelCount == getTextureChannelCount(textureView)
  IN  IF channelCount = 3 \/ (m_hdstormCompat /\ channelCount = 1)
      THEN "vector3"
      ELSE IF channelCount = 4 \/ (m_hdstormCompat /\ channelCount = 2)
      THEN "vector4"
      ELSE IF channelCount = 2 THEN "vector2"
      ELSE IF channelCount = 1 THEN "float"
      ELSE ""

\* lines 1430-1464
getTextureValueType(textureView, color) ==
  LET result == getTextureMetadata(textureView)
      channelCount == result.metadata.channelCount
  IN  IF ~result.found THEN ""
      ELSE IF channelCount = 3 \/ (m_hdstormCompat /\ channelCount = 1)
      THEN IF color THEN "color3" ELSE "vector3"
      ELSE IF channelCount = 4 \/ (m_hdstormCompat /\ channelCount = 2)
      THEN IF color THEN "color4" ELSE "vector4"
      ELSE IF channelCount = 2 THEN "vector2"
      ELSE IF channelCount = 1 THEN "float"
      ELSE ""

\* naming.cpp lines 58-62, 64-80, 82-86
makeStSetName(index) == "st" \o Str(to_string(index))
makeColorSetName(index) == "color" \o Str(to_string(index))
makeOpacitySetName(index) == "opacity" \o Str(to_string(index))

\* lines 411-412
m_defaultColorSetName == makeColorSetName(0)
m_defaultOpacitySetName == makeOpacitySetName(0)

\* node->setAttribute("colorspace", ...) on the node just added
setColorspaceOfNode(graph, colorspace) ==
  [graph EXCEPT !.nodes =
     [k \in DOMAIN @ |-> IF @[k].name = graph.ret.name
                          THEN [@[k] EXCEPT !.colorspace = colorspace]
                          ELSE @[k]]]

\* input->setAttribute("colorspace", ...), when colorspaces are not explicit
withColorspace(input, colorspace) ==
  IF m_explicitColorSpaceTransforms THEN input
  ELSE [input EXCEPT !.colorspace = colorspace]

\* lines 1303-1357, without the MaterialXView debug setting; NoValue is
\* the null default value
makeGeompropValueNode(graph, geompropName, geompropValueTypeName, defaultValue) ==
  Let(addNode(graph, "geompropvalue", geompropValueTypeName,
        << Literal("geomprop", StringValue(geompropName)) >>
        \o (IF defaultValue # NoValue
            THEN << LiteralString("default", geompropValueTypeName,
                                  getValueString(defaultValue)) >>
            ELSE <<>>)),
      LAMBDA node :
        IF ~m_explicitColorSpaceTransforms
           /\ geompropName = m_defaultColorSetName
        THEN setColorspaceOfNode(node, MTLX_COLORSPACE_LINEAR)
        ELSE node)

\* GfIsClose(a, b, 1e-5)
GfIsClose(a, b) == a - b < 100 /\ b - a < 100

\* cgltf_util.cpp lines 591-598
cgltf_transform_required(transform) ==
  ~ /\ GfIsClose(transform.offset[1], 0)
    /\ GfIsClose(transform.offset[2], 0)
    /\ GfIsClose(transform.rotation, 0)
    /\ GfIsClose(transform.scale[1], Unit)
    /\ GfIsClose(transform.scale[2], Unit)

\* GfRadiansToDegrees, to five digits
GfRadiansToDegrees(radians) == (radians \div 100000) * 5729578

\* 1.0f / x, to four digits
Reciprocal(x) == (Unit \div (x \div 1000)) * 10000

\* lines 1186-1211
addTextureTransformNode(graph, transform) ==
  LET scaleX == IF transform.scale[1] = 0 THEN 0
                ELSE Reciprocal(transform.scale[1])
      scaleY == IF transform.scale[2] = 0 THEN 0
                ELSE Reciprocal(transform.scale[2])
  IN  addNode(graph, "place2d", "vector2",
        << Connected("texcoord", "vector2", graph.ret.name),
           Literal("offset", Vector2Value(-transform.offset[1],
                                          transform.offset[2])),
           Literal("rotate", FloatValue(GfRadiansToDegrees(-transform.rotation))),
           Literal("scale", Vector2Value(scaleX, scaleY)),
           Literal("pivot", Vector2Value(0, Unit)) >>)

\* lines 1267-1292: the filtertype input, or none
filterInputs(textureView) ==
  LET min_filter == textureView.min_filter
      mag_filter == textureView.mag_filter
      filtertype ==
        IF min_filter = 0 /\ mag_filter # 0 THEN getMtlxFilterType(mag_filter)
        ELSE IF mag_filter = 0 /\ min_filter # 0
        THEN getMtlxFilterType(min_filter)
        ELSE IF min_filter # mag_filter THEN getMtlxFilterType(mag_filter)
        ELSE ""
  IN  IF textureView.sampler /\ (min_filter # 0 \/ mag_filter # 0)
         /\ filtertype # ""
      THEN << Literal("filtertype", StringValue(filtertype)) >>
      ELSE <<>>

\* lines 1245-1298: the inputs of the image node
imageInputs(texcoordNode, filePath, textureType, isSrgb, textureView, defaultValue) ==
  << Connected("texcoord", "vector2", texcoordNode.name),
     withColorspace(
       Literal("file", [type |-> "filename", data |-> <<filePath>>]),
       IF isSrgb THEN MTLX_COLORSPACE_SRGB ELSE MTLX_COLORSPACE_LINEAR) >>
  \o (IF defaultValue # NoValue
      THEN << withColorspace(
                LiteralString("default", textureType,
                  getTextureTypeAdjustedDefaultValueString(defaultValue,
                                                           textureType)),
                MTLX_COLORSPACE_LINEAR) >>
      ELSE <<>>)
  \o filterInputs(textureView)
  \o << Literal("uaddressmode", StringValue(
          IF textureView.sampler THEN getMtlxAddressMode(textureView.wrap_s)
          ELSE "periodic")),
        Literal("vaddressmode", StringValue(
          IF textureView.sampler THEN getMtlxAddressMode(textureView.wrap_t)
          ELSE "periodic")) >>

\* lines 1213-1301, without the MaterialXView debug setting; the image
\* node is created first and is the node returned
addTextureNode(graph, filePath, textureType, isSrgb, textureView, defaultValue) ==
  LET transform == textureView.transform
      stIndex == IF textureView.has_transform /\ transform.has_texcoord
                 THEN transform.texcoord ELSE textureView.texcoord
  IN  Let(addNode(graph, "image", textureType, <<>>),
          LAMBDA node :
      Let(makeGeompropValueNode(node, makeStSetName(stIndex), "vector2",
                                NoValue),
          LAMBDA geompropNode :
      Let(IF textureView.has_transform /\ cgltf_transform_required(transform)
          THEN addTextureTransformNode(geompropNode, transform)
          ELSE geompropNode,
          LAMBDA texcoordNode :
        Returning(
          setInputs(texcoordNode, node.ret.name,
                    imageInputs(texcoordNode.ret, filePath, textureType,
                                isSrgb, textureView, defaultValue)),
          node.ret))))

\* lines 1072-1115
addFloatTextureNodes(graph, textureView, filePath, channelIndex, defaultValue) ==
  LET texValueType == getTextureValueType(textureView, FALSE)
      isSrgbInUsd == m_hdstormCompat /\ isTextureSrgbInUsd(textureView)
                       /\ channelIndex # 3
      defaultValuePtr == FloatValue(IF isSrgbInUsd
                                    THEN convertLinearFloatToSrgb(defaultValue)
                                    ELSE defaultValue)
      remapChannelToAlpha ==
        m_hdstormCompat /\ getTextureChannelCount(textureView) = 2
          /\ channelIndex = 1
  IN  Let(addTextureNode(graph, filePath, texValueType, FALSE, textureView,
                         defaultValuePtr),
          LAMBDA textureNode :
      Let(IF texValueType # "float"
          THEN makeExtractChannelNode(textureNode,
                 IF remapChannelToAlpha THEN 3 ELSE channelIndex)
          ELSE textureNode,
          LAMBDA valueNode :
        IF isSrgbInUsd THEN makeLinearToSrgbConversionNodes(valueNode)
        ELSE valueNode))

\* lines 1159-1166: one channel of valueNode, and its transfer function
convertChannel(graph, valueNode, index, vec3IncorrectlyLinearized) ==
  Let(makeExtractChannelNode(Returning(graph, valueNode), index),
      LAMBDA channelNode :
        IF vec3IncorrectlyLinearized
        THEN makeLinearToSrgbConversionNodes(channelNode)
        ELSE makeSrgbToLinearConversionNodes(channelNode))

\* lines 1157-1181: the transfer function on each channel, and combine3
convertChannels(valueNode, desiredValueType, vec3IncorrectlyLinearized) ==
  Let(convertChannel(valueNode, valueNode.ret, 0, vec3IncorrectlyLinearized),
      LAMBDA channel1Node :
  Let(convertChannel(channel1Node, valueNode.ret, 1, vec3IncorrectlyLinearized),
      LAMBDA channel2Node :
  Let(convertChannel(channel2Node, valueNode.ret, 2, vec3IncorrectlyLinearized),
      LAMBDA channel3Node :
    addNode(channel3Node, "combine3", desiredValueType,
      << Connected("in1", channel1Node.ret.type, channel1Node.ret.name),
         Connected("in2", channel2Node.ret.type, channel2Node.ret.name),
         Connected("in3", channel3Node.ret.type, channel3Node.ret.name) >>))))

\* lines 1117-1184
addFloat3TextureNodes(graph, textureView, filePath, color, defaultValue) ==
  LET desiredValueType == IF color THEN "color3" ELSE "vector3"
      texValueType == getTextureValueType(textureView, color)
      isSrgbInUsd == m_hdstormCompat /\ isTextureSrgbInUsd(textureView)
      convertToSrgb == color /\ ~isSrgbInUsd
      vec3IncorrectlyLinearized == ~color /\ isSrgbInUsd
  IN  Let(addTextureNode(graph, filePath, texValueType, color, textureView,
            IF m_explicitColorSpaceTransforms /\ vec3IncorrectlyLinearized
            THEN convertFloat3ValueToSrgb(defaultValue) ELSE defaultValue),
          LAMBDA textureNode :
      Let(IF texValueType = "vector2"
          THEN makeExtractChannelNode(textureNode, 0)
          ELSE textureNode,
          LAMBDA extracted :
      Let(IF texValueType \in {"color4", "vector4", "float", "vector2"}
          THEN makeConversionNode(extracted, desiredValueType)
          ELSE extracted,
          LAMBDA valueNode :
        IF m_explicitColorSpaceTransforms
           /\ (convertToSrgb \/ vec3IncorrectlyLinearized)
        THEN convertChannels(valueNode, desiredValueType,
                             vec3IncorrectlyLinearized)
        ELSE valueNode)))

\* an output element of the node graph
Output(name, type, nodeName) ==
  [name |-> name, type |-> type, nodeName |-> nodeName]

\* lines 1359-1379: the node returned last is connected to the input, and
\* the value attribute of the input is removed
connectNodeGraphNodeToShaderInput(graph, input) ==
  LET nodeName == graph.ret.name
      outName == "out_" \o nodeName
  IN  IF m_flattenNodes
      THEN [graph |-> graph,
            input |-> [input EXCEPT !.nodeName = nodeName, !.value = NoValue]]
      ELSE [graph |-> [graph EXCEPT !.outputs =
                         Append(@, Output(outName, graph.ret.type, nodeName))],
            input |-> [input EXCEPT !.output = outName,
                                    !.nodeGraph = graph.name,
                                    !.value = NoValue]]

\* a node with two inputs connected to earlier nodes
addBinaryNode(graph, category, type, in1, in2, in2Type) ==
  addNode(graph, category, type,
          << Connected("in1", type, in1.name),
             Connected("in2", in2Type, in2.name) >>)

\* lines 719-749; NoTextureView is the null texture view
setDiffuseTextureInput(graph, shaderInput, textureView, factor) ==
  LET path == getTextureFilePath(textureView)
  IN  Let(makeGeompropValueNode(graph, m_defaultColorSetName, "color3",
                                Vector3Value(Unit, Unit, Unit)),
          LAMBDA geompropNode :
      Let(makeMultiplyFactorNodeIfNecessary(geompropNode, factor),
          LAMBDA multiplyNode1 :
        IF ~path.found
        THEN connectNodeGraphNodeToShaderInput(multiplyNode1, shaderInput)
        ELSE
      Let(addFloat3TextureNodes(multiplyNode1, textureView, path.filePath,
                                TRUE, Color3Value(Unit, Unit, Unit)),
          LAMBDA textureNode :
      Let(addBinaryNode(textureNode, "multiply", "color3",
                        multiplyNode1.ret, textureNode.ret, "color3"),
          LAMBDA multiplyNode2 :
        connectNodeGraphNodeToShaderInput(multiplyNode2, shaderInput)))))

\* alpha read from the fourth channel whatever the channel count
alphaChannelIndex_alwaysFourth(channelCount) == 3

\* lines 770-776: the channel alpha is read from
alphaChannelIndex(channelCount) ==
  IF channelCount # 4 THEN (IF channelCount = 2 THEN 1 ELSE 0) ELSE 3

\* lines 771-774: the TF_WARN of setAlphaTextureInput
alphaWarnings(textureView) ==
  LET result == getTextureMetadata(textureView)
  IN  IF result.found /\ result.metadata.channelCount # 4
      THEN << [message |-> "alpha must be encoded in the 4th channel",
               channelCount |-> result.metadata.channelCount] >>
      ELSE <<>>

\* lines 751-791
setAlphaTextureInput(graph, shaderInput, textureView, factor) ==
  LET result == getTextureMetadata(textureView)
  IN  Let(makeGeompropValueNode(graph, m_defaultOpacitySetName, "float",
                                FloatValue(Unit)),
          LAMBDA geompropNode :
      Let(makeMultiplyFactorNodeIfNecessary(geompropNode, FloatValue(factor)),
          LAMBDA multiplyNode1 :
        IF ~result.found
        THEN connectNodeGraphNodeToShaderInput(multiplyNode1, shaderInput)
        ELSE
      Let(addFloatTextureNodes(multiplyNode1, textureView,
            result.metadata.filePath,
            alphaChannelIndex(result.metadata.channelCount), Unit),
          LAMBDA valueNode :
      Let(addBinaryNode(valueNode, "multiply", "float",
                        multiplyNode1.ret, valueNode.ret, "float"),
          LAMBDA multiplyNode2 :
        connectNodeGraphNodeToShaderInput(multiplyNode2, shaderInput)))))

\* lines 806-838: the texture value, remapped to [-1, 1], scaled and
\* normalized
normalMapNodes(graph, textureView, filePath) ==
  Let(addFloat3TextureNodes(graph, textureView, filePath, FALSE,
        Vector3Value(Unit \div 2, Unit \div 2, Unit)),
      LAMBDA textureNode :
  Let(addNode(textureNode, "multiply", "vector3",
        << Connected("in1", "vector3", textureNode.ret.name),
           Literal("in2", FloatValue(2 * Unit)) >>),
      LAMBDA multiplyNode1 :
  Let(addNode(multiplyNode1, "subtract", "vector3",
        << Connected("in1", "vector3", multiplyNode1.ret.name),
           Literal("in2", FloatValue(Unit)) >>),
      LAMBDA subtractNode :
  Let(makeMultiplyFactorNodeIfNecessary(subtractNode,
        Vector3Value(textureView.scale, textureView.scale, Unit)),
      LAMBDA multiplyNode2 : makeNormalizeNode(multiplyNode2)))))

\* lines 858-862, without the MaterialXView debug setting
tangentNodes(graph) ==
  Let(makeGeompropValueNode(graph, "tangents", "vector3", NoValue),
      LAMBDA geompropNode :
  Let(makeVectorToWorldSpaceNode(geompropNode),
      LAMBDA worldNode : makeNormalizeNode(worldNode)))

\* lines 877-895, without the MaterialXView debug setting
bitangentNodes(graph, normalNode, tangentNode) ==
  Let(addBinaryNode(graph, "crossproduct", "vector3", normalNode, tangentNode,
                    "vector3"),
      LAMBDA crossproductNode :
  Let(makeGeompropValueNode(crossproductNode, "bitangentSigns", "float",
                            NoValue),
      LAMBDA bitangentSignNode :
    addBinaryNode(bitangentSignNode, "multiply", "vector3",
                  crossproductNode.ret, bitangentSignNode.ret, "float")))

\* lines 898-944: the product with the TBN matrix, normalized
tbnNodes(graph, tangentNode, bitangentNode, normalNode, outx, outy, outz) ==
  Let(addBinaryNode(graph, "multiply", "vector3", tangentNode, outx, "float"),
      LAMBDA multiplyNode3 :
  Let(addBinaryNode(multiplyNode3, "multiply", "vector3", bitangentNode, outy,
                    "float"),
      LAMBDA multiplyNode4 :
  Let(addBinaryNode(multiplyNode4, "multiply", "vector3", normalNode, outz,
                    "float"),
      LAMBDA multiplyNode5 :
  Let(addBinaryNode(multiplyNode5, "add", "vector3", multiplyNode3.ret,
                    multiplyNode4.ret, "vector3"),
      LAMBDA addNode1 :
  Let(addBinaryNode(addNode1, "add", "vector3", addNode1.ret,
                    multiplyNode5.ret, "vector3"),
      LAMBDA addNode2 : makeNormalizeNode(addNode2))))))

\* lines 806-949
normalNodes(graph, textureView, filePath) ==
  Let(normalMapNodes(graph, textureView, filePath),
      LAMBDA normalizeNode1 :
  Let(makeExtractChannelNode(normalizeNode1, 0),
      LAMBDA outx :
  Let(makeExtractChannelNode(Returning(outx, normalizeNode1.ret), 1),
      LAMBDA outy :
  Let(makeExtractChannelNode(Returning(outy, normalizeNode1.ret), 2),
      LAMBDA outz :
  Let(addNode(outz, "normal", "vector3",
              << Literal("space", StringValue("world")) >>),
      LAMBDA normalNode :
  Let(tangentNodes(normalNode),
      LAMBDA tangentNode :
  Let(bitangentNodes(tangentNode, normalNode.ret, tangentNode.ret),
      LAMBDA bitangentNode :
    tbnNodes(bitangentNode, tangentNode.ret, bitangentNode.ret,
             normalNode.ret, outx.ret, outy.ret, outz.ret))))))))

\* lines 793-949: ok is the value returned
setNormalTextureInput(graph, shaderInput, textureView) ==
  LET path == getTextureFilePath(textureView)
  IN  IF ~path.found
      THEN [graph |-> graph, input |-> shaderInput, ok |-> FALSE]
      ELSE Let(normalNodes(graph, textureView, path.filePath),
               LAMBDA normalizeNode2 :
           Let(connectNodeGraphNodeToShaderInput(normalizeNode2, shaderInput),
               LAMBDA connected :
             [graph |-> connected.graph, input |-> connected.input,
              ok |-> TRUE]))

\* lines 951-990
setOcclusionTextureInput(graph, shaderInput, textureView) ==
  LET path == getTextureFilePath(textureView)
  IN  IF ~path.found
      THEN [graph |-> graph, input |-> shaderInput]
      ELSE
      Let(addFloatTextureNodes(graph, textureView, path.filePath, 0, Unit),
          LAMBDA valueNode :
      Let(addNode(valueNode, "subtract", "float",
            << Connected("in1", "float", valueNode.ret.name),
               Literal("in2", FloatValue(Unit)) >>),
          LAMBDA substractNode :
      Let(makeMultiplyFactorNodeIfNecessary(substractNode,
                                            FloatValue(textureView.scale)),
          LAMBDA multiplyNode :
      Let(addNode(multiplyNode, "add", "float",
            << Literal("in1", FloatValue(Unit)),
               Connected("in2", "float", multiplyNode.ret.name) >>),
          LAMBDA addedNode :
        connectNodeGraphNodeToShaderInput(addedNode, shaderInput)))))

\* lines 992-1022
setIridescenceThicknessInput(graph, shaderInput, iridescence) ==
  LET textureView == iridescence.iridescence_thickness_texture
      path == getTextureFilePath(textureView)
  IN  IF ~path.found
      THEN [graph |-> graph,
            input |-> setValue(shaderInput,
                        FloatValue(iridescence.iridescence_thickness_max))]
      ELSE
      Let(addNode(graph, "mix", "float", <<>>),
          LAMBDA mixNode :
      Let(addFloatTextureNodes(mixNode, textureView, path.filePath, 1, Unit),
          LAMBDA thicknessTexNode :
      Let(Returning(
            setInputs(thicknessTexNode, mixNode.ret.name,
              << Literal("bg", FloatValue(iridescence.iridescence_thickness_min)),
                 Literal("fg", FloatValue(iridescence.iridescence_thickness_max)),
                 Connected("mix", "float", thicknessTexNode.ret.name) >>),
            mixNode.ret),
          LAMBDA mixed :
        connectNodeGraphNodeToShaderInput(mixed, shaderInput))))

\* lines 1024-1046
setSrgbTextureInput(graph, input, textureView, factor, fallback) ==
  LET path == getTextureFilePath(textureView)
  IN  IF path.found
      THEN Let(addFloat3TextureNodes(graph, textureView, path.filePath, TRUE,
                                     fallback),
               LAMBDA valueNode :
           Let(makeMultiplyFactorNodeIfNecessary(valueNode, factor),
               LAMBDA multiplyNode :
             connectNodeGraphNodeToShaderInput(multiplyNode, input)))
      ELSE [graph |-> graph,
            input |-> setValueString(input, getValueString(factor))]

\* a float input that keeps what it had when the texture lookup fails
setFloatTextureInput_keepsInput(graph, input, textureView, channelIndex, factor, fallback) ==
  LET path == getTextureFilePath(textureView)
  IN  IF path.found
      THEN Let(addFloatTextureNodes(graph, textureView, path.filePath,
                                    channelIndex, fallback),
               LAMBDA valueNode :
           Let(makeMultiplyFactorNodeIfNecessary(valueNode, FloatValue(factor)),
               LAMBDA multiplyNode :
             connectNodeGraphNodeToShaderInput(multiplyNode, input)))
      ELSE [graph |-> graph, input |-> input]

\* lines 1048-1070
setFloatTextureInput(graph, input, textureView, channelIndex, factor, fallback) ==
  LET path == getTextureFilePath(textureView)
  IN  IF path.found
      THEN Let(addFloatTextureNodes(graph, textureView, path.filePath,
                                    channelIndex, fallback),
               LAMBDA valueNode :
           Let(makeMultiplyFactorNodeIfNecessary(valueNode, FloatValue(factor)),
               LAMBDA multiplyNode :
             connectNodeGraphNodeToShaderInput(multiplyNode, input)))
      ELSE [graph |-> graph,
            input |-> setValueString(input, getValueString(FloatValue(factor)))]

(***************************************************************************)
(* Source materials.                                                       *)
(***************************************************************************)
AlphaModes == <<"opaque", "mask", "blend">>

\* int(material->alpha_mode)
alphaModeInt(alpha_mode) ==
  CHOOSE k \in 0..2 : AlphaModes[k + 1] = alpha_mode

Extensions ==
  {"none", "emissive_strength", "clearcoat", "transmission", "volume", "ior",
   "iridescence", "specular", "sheen"}

\* the texture views of the core material, and of each extension
TextureSlots(extension) ==
  CASE extension = "none" ->
         {"base_color", "metallic_roughness", "emissive", "normal",
          "occlusion"}
    [] extension = "clearcoat" ->
         {"clearcoat", "clearcoat_roughness", "clearcoat_normal"}
    [] extension = "transmission" -> {"transmission"}
    [] extension = "volume" -> {"thickness"}
    [] extension = "iridescence" -> {"iridescence", "iridescence_thickness"}
    [] extension = "specular" -> {"specular", "specular_color"}
    [] extension = "sheen" -> {"sheen_color", "sheen_roughness"}
    [] OTHER -> {}

\* a texture with a sampler, a texture transform and a scale
SampledTextureView ==
  [TextureView(<<4, TRUE>>) EXCEPT
     !.sampler = TRUE, !.min_filter = 9987, !.mag_filter = 9728,
     !.wrap_s = 33071, !.wrap_t = 33648, !.scale = Unit \div 2,
     !.has_transform = TRUE,
     !.transform = [has_texcoord |-> TRUE, texcoord |-> 1,
                    offset |-> <<Unit \div 2, 0>>, rotation |-> 0,
                    scale |-> <<2 * Unit, Unit>>]]

\* a texture of each image of the metadata map, a texture without image,
\* a texture whose image has no metadata, and the sampled texture
TextureViewSamples ==
  {TextureView(image) : image \in DOMAIN m_imageMetadataMap}
    \union {TextureView(<<>>), TextureView(<<0, FALSE>>), SampledTextureView}

\* the values every factor of a material takes
FactorSamples == {0, Unit \div 2, Unit}

\* cgltf_material: one extension at most, a texture in one slot at most,
\* every factor equal to factor
Material(alpha_mode, has_pbr_metallic_roughness, unlit, extension, slot, textureView, factor) ==
  LET view(s) == IF slot = s THEN textureView ELSE NoTextureView
      color == <<factor, factor, factor>>
  IN  [alpha_mode |-> alpha_mode,
       alpha_cutoff |-> Unit \div 2,
       emissive_factor |-> color,
       emissive_texture |-> view("emissive"),
       normal_texture |-> view("normal"),
       occlusion_texture |-> view("occlusion"),
       unlit |-> unlit,
       has_pbr_metallic_roughness |-> has_pbr_metallic_roughness,
       pbr_metallic_roughness |->
         [base_color_texture |-> view("base_color"),
          metallic_roughness_texture |-> view("metallic_roughness"),
          base_color_factor |-> <<factor, factor, factor, factor>>,
          metallic_factor |-> factor,
          roughness_factor |-> factor],
       has_emissive_strength |-> extension = "emissive_strength",
       emissive_strength |-> [emissive_strength |-> 2 * Unit],
       has_clearcoat |-> extension = "clearcoat",
       clearcoat |->
         [clearcoat_texture |-> view("clearcoat"),
          clearcoat_roughness_texture |-> view("clearcoat_roughness"),
          clearcoat_normal_texture |-> view("clearcoat_normal"),
          clearcoat_factor |-> factor,
          clearcoat_roughness_factor |-> factor],
       has_transmission |-> extension = "transmission",
       transmission |->
         [transmission_texture |-> view("transmission"),
          transmission_factor |-> factor],
       has_volume |-> extension = "volume",
       volume |->
         [thickness_texture |-> view("thickness"),
          thickness_factor |-> factor,
          attenuation_color |-> color,
          attenuation_distance |-> 3 * Unit],
       has_ior |-> extension = "ior",
       ior |-> [ior |-> Milli(1500)],
       has_iridescence |-> extension = "iridescence",
       iridescence |->
         [iridescence_factor |-> factor,
          iridescence_texture |-> view("iridescence"),
          iridescence_ior |-> Milli(1300),
          iridescence_thickness_min |-> Unit,
          iridescence_thickness_max |-> 4 * Unit,
          iridescence_thickness_texture |-> view("iridescence_thickness")],
       has_specular |-> extension = "specular",
       specular |->
         [specular_texture |-> view("specular"),
          specular_color_texture |-> view("specular_color"),
          specular_color_factor |-> color,
          specular_factor |-> factor],
       has_sheen |-> extension = "sheen",
       sheen |->
         [sheen_color_texture |-> view("sheen_color"),
          sheen_color_factor |-> color,
          sheen_roughness_texture |-> view("sheen_roughness"),
          sheen_roughness_factor |-> factor]]

\* lines 62-65
makeMxColor3(ptr) == Color3Value(ptr[1], ptr[2], ptr[3])

(***************************************************************************)
(* The document under construction: the shader node is a child of the     *)
(* node graph when nodes are flattened, and of the document otherwise.     *)
(***************************************************************************)
materialName == DEFAULT_MATERIAL_NAME
nodegraphName == "NG_" \o materialName
shaderName == "SR_" \o materialName

nodeGraphOf(document) == document.nodeGraphs[1]

shaderNodeRoot(document) ==
  IF m_flattenNodes THEN nodeGraphOf(document).nodes ELSE document.nodes

hasShaderNode(document) ==
  /\ document.nodeGraphs # <<>>
  /\ \E k \in DOMAIN shaderNodeRoot(document) :
       shaderNodeRoot(document)[k].name = shaderName

shaderNodeOf(document) ==
  LET root == shaderNodeRoot(document)
  IN  root[CHOOSE k \in DOMAIN root : root[k].name = shaderName]

replaceNode(nodes, node) ==
  [k \in DOMAIN nodes |-> IF nodes[k].name = node.name THEN node ELSE nodes[k]]

\* the document after a change made through the shaderNode pointer
withShaderNode(document, node) ==
  IF m_flattenNodes
  THEN [document EXCEPT !.nodeGraphs[1].nodes = replaceNode(@, node)]
  ELSE [document EXCEPT !.nodes = replaceNode(@, node)]

\* shaderNode->addInput(name, type)
addShaderInput(document, name, type) ==
  Let(document, LAMBDA d :
    withShaderNode(d, addInput(shaderNodeOf(d), name, type)))

\* shaderNode->addInput(name, type)->setValue(value)
addShaderValue(document, name, value) ==
  Let(document, LAMBDA d :
    withShaderNode(d,
      [shaderNodeOf(d) EXCEPT !.inputs = Append(@, Literal(name, value))]))

\* a change made through an input pointer of the shader node
withShaderInput(document, input) ==
  Let(document, LAMBDA d :
    withShaderNode(d, WithInput(shaderNodeOf(d), input)))

\* the document after one of the set...Input functions has run
withResult(document, result) ==
  withShaderInput(
    [document EXCEPT !.nodeGraphs[1] =
       [result.graph EXCEPT !.ret = NodeGraph("").ret]],
    result.input)

\* setFloatTextureInput on the shader input of that name
lowerFloat(document, name, textureView, channelIndex, factor, fallback) ==
  Let(document, LAMBDA d :
  Let(setFloatTextureInput(nodeGraphOf(d), getInput(shaderNodeOf(d), name),
                           textureView, channelIndex, factor, fallback),
      LAMBDA result : withResult(d, result)))

\* setSrgbTextureInput on the shader input of that name
lowerSrgb(document, name, textureView, factor, fallback) ==
  Let(document, LAMBDA d :
  Let(setSrgbTextureInput(nodeGraphOf(d), getInput(shaderNodeOf(d), name),
                          textureView, factor, fallback),
      LAMBDA result : withResult(d, result)))

\* setNormalTextureInput on a new shader input of that name, which is
\* removed again when no texture was found (lines 528-561, 622-627)
lowerNormal(document, name, textureView) ==
  Let(addShaderInput(document, name, "vector3"), LAMBDA d :
  Let(setNormalTextureInput(nodeGraphOf(d), getInput(shaderNodeOf(d), name),
                            textureView),
      LAMBDA result :
        IF result.ok THEN withResult(d, result)
        ELSE withShaderNode(d, removeInput(shaderNodeOf(d), name))))

\* lines 578-581, 596-599: setAlphaTextureInput unless the material is opaque
lowerAlpha(document, textureView, factor) ==
  Let(document, LAMBDA d :
    IF material.alpha_mode # "opaque"
    THEN Let(setAlphaTextureInput(nodeGraphOf(d),
               getInput(shaderNodeOf(d), "alpha"), textureView, factor),
             LAMBDA result : withResult(d, result))
    ELSE d)

\* lines 583, 594: setDiffuseTextureInput
lowerDiffuse(document, textureView, factor) ==
  Let(document, LAMBDA d :
  Let(setDiffuseTextureInput(nodeGraphOf(d),
        getInput(shaderNodeOf(d), "base_color"), textureView, factor),
      LAMBDA result : withResult(d, result)))

\* lines 574-600
pbrMetallicRoughnessInputs(document) ==
  LET pbr == material.pbr_metallic_roughness
  IN  IF material.has_pbr_metallic_roughness
      THEN lowerFloat(
             lowerFloat(
               lowerDiffuse(
                 lowerAlpha(document, pbr.base_color_texture,
                            pbr.base_color_factor[4]),
                 pbr.base_color_texture, makeMxColor3(pbr.base_color_factor)),
               "metallic", pbr.metallic_roughness_texture, 2,
               pbr.metallic_factor, Unit),
             "roughness", pbr.metallic_roughness_texture, 1,
             pbr.roughness_factor, Unit)
      ELSE lowerAlpha(
             lowerDiffuse(document, NoTextureView,
                          Color3Value(Unit, Unit, Unit)),
             NoTextureView, Unit)

\* lines 602-608
emissiveStrengthInputs(document) ==
  IF material.has_emissive_strength
  THEN addShaderValue(document, "emissive_strength",
                      FloatValue(material.emissive_strength.emissive_strength))
  ELSE document

\* lines 610-628
clearcoatInputs(document) ==
  LET clearcoat == material.clearcoat
  IN  IF material.has_clearcoat
      THEN lowerNormal(
             lowerFloat(
               addShaderInput(
                 lowerFloat(addShaderInput(document, "clearcoat", "float"),
                            "clearcoat", clearcoat.clearcoat_texture, 0,
                            clearcoat.clearcoat_factor, Unit),
                 "clearcoat_roughness", "float"),
               "clearcoat_roughness", clearcoat.clearcoat_roughness_texture, 1,
               clearcoat.clearcoat_roughness_factor, Unit),
             "clearcoat_normal", clearcoat.clearcoat_normal_texture)
      ELSE document

\* lines 630-637
transmissionInputs(document) ==
  IF material.has_transmission
  THEN lowerFloat(addShaderInput(document, "transmission", "float"),
                  "transmission", material.transmission.transmission_texture,
                  0, material.transmission.transmission_factor, 0)
  ELSE document

\* lines 639-652
volumeInputs(document) ==
  LET volume == material.volume
  IN  IF material.has_volume
      THEN addShaderValue(
             addShaderValue(
               lowerFloat(addShaderInput(document, "thickness", "float"),
                          "thickness", volume.thickness_texture, 1,
                          volume.thickness_factor, 0),
               "attenuation_distance", FloatValue(volume.attenuation_distance)),
             "attenuation_color", makeMxColor3(volume.attenuation_color))
      ELSE document

\* lines 654-660
iorInputs(document) ==
  IF material.has_ior
  THEN addShaderValue(document, "ior", FloatValue(material.ior.ior))
  ELSE document

\* lines 662-675
iridescenceInputs(document) ==
  LET iridescence == material.iridescence
  IN  IF material.has_iridescence
      THEN Let(addShaderInput(
                 addShaderValue(
                   lowerFloat(addShaderInput(document, "iridescence", "float"),
                              "iridescence", iridescence.iridescence_texture,
                              0, iridescence.iridescence_factor, Unit),
                   "iridescence_ior", FloatValue(iridescence.iridescence_ior)),
                 "iridescence_thickness", "float"),
               LAMBDA d :
           Let(setIridescenceThicknessInput(nodeGraphOf(d),
                 getInput(shaderNodeOf(d), "iridescence_thickness"),
                 iridescence),
               LAMBDA result : withResult(d, result)))
      ELSE document

\* lines 677-688
specularInputs(document) ==
  LET specular == material.specular
  IN  IF material.has_specular
      THEN lowerSrgb(
             addShaderInput(
               lowerFloat(addShaderInput(document, "specular", "float"),
                          "specular", specular.specular_texture, 3,
                          specular.specular_factor, Unit),
               "specular_color", "color3"),
             "specular_color", specular.specular_color_texture,
             makeMxColor3(specular.specular_color_factor),
             Color3Value(Unit, Unit, Unit))
      ELSE document

\* lines 690-701
sheenInputs(document) ==
  LET sheen == material.sheen
  IN  IF material.has_sheen
      THEN lowerFloat(
             addShaderInput(
               lowerSrgb(addShaderInput(document, "sheen_color", "color3"),
                         "sheen_color", sheen.sheen_color_texture,
                         makeMxColor3(sheen.sheen_color_factor),
                         Color3Value(0, 0, 0)),
               "sheen_roughness", "float"),
             "sheen_roughness", sheen.sheen_roughness_texture, 3,
             sheen.sheen_roughness_factor, 0)
      ELSE document

\* line 713
valueCloseToZero == Unit \div 100000

\* lines 703-716: a transmission close to zero for hdStorm
hdStormTransmission(document) ==
  IF material.alpha_mode # "opaque" /\ m_hdstormCompat /\ ~m_flattenNodes
  THEN Let(IF material.has_transmission THEN document
           ELSE addShaderInput(document, "transmission", "float"),
           LAMBDA d :
       Let(getInput(shaderNodeOf(d), "transmission"),
           LAMBDA transmissionInput :
         IF ~hasValue(transmissionInput)
         THEN withShaderInput(d, setValue(transmissionInput,
                                          FloatValue(valueCloseToZero)))
         ELSE IF transmissionInput.value = FloatValue(0)
         THEN withShaderInput(d, setValue(transmissionInput,
                                          FloatValue(valueCloseToZero)))
         ELSE d))
  ELSE document

(***************************************************************************)
(* MaterialXMaterialConverter::convert, step by step.                      *)
(***************************************************************************)
\* lines 404-422: a converter for every configuration, and a material; a
\* material with an extension has the metallic-roughness block and is
\* opaque or blended
MtlxInit ==
  /\ \E extension \in Extensions, factor \in FactorSamples :
       \E alpha_mode \in IF extension = "none" THEN Range(AlphaModes)
                          ELSE {"opaque", "blend"},
          has_pbr_metallic_roughness \in IF extension = "none" THEN BOOLEAN
                                          ELSE {TRUE},
          unlit \in IF extension = "none" THEN BOOLEAN ELSE {FALSE},
          slot \in {"none"} \union TextureSlots(extension) :
         \E textureView \in IF slot = "none" THEN {NoTextureView}
                            ELSE TextureViewSamples :
           material = Material(alpha_mode, has_pbr_metallic_roughness, unlit,
                               extension, slot, textureView, factor)
  /\ m_flattenNodes \in BOOLEAN
  /\ m_hdstormCompat \in BOOLEAN
  /\ \E explicit_colorspace_transforms \in BOOLEAN :
       m_explicitColorSpaceTransforms =
         (explicit_colorspace_transforms \/ m_hdstormCompat)
  /\ xpc = "convert"
  /\ m_doc = [NoMtlxDocument EXCEPT !.colorspace =
                IF m_explicitColorSpaceTransforms THEN ""
                ELSE MTLX_COLORSPACE_LINEAR]
  /\ warnings = <<>>
  /\ MeshIdle
  /\ SceneIdle
  /\ GucIdle
  /\ NamesIdle

\* lines 454-459: the node graph and the shader node
CreateShaderNode ==
  /\ xpc = "convert"
  /\ LET shaderNode == Node(shaderName, "gltf_pbr", "surfaceshader", <<>>)
         nodeGraph == NodeGraph(nodegraphName)
     IN  m_doc' = IF m_flattenNodes
                  THEN [m_doc EXCEPT !.nodeGraphs =
                          <<[nodeGraph EXCEPT !.nodes = <<shaderNode>>]>>]
                  ELSE [m_doc EXCEPT !.nodeGraphs = <<nodeGraph>>,
                                     !.nodes = <<shaderNode>>]
  /\ xpc' = "defaults"
  /\ UNCHANGED <<material, m_flattenNodes, m_explicitColorSpaceTransforms,
                 m_hdstormCompat, warnings>>
  /\ UNCHANGED otherThanMtlx

\* lines 506-521: five inputs and their values
AddDefaultInputs ==
  /\ xpc = "defaults"
  /\ m_doc' = withShaderNode(m_doc,
       [shaderNodeOf(m_doc) EXCEPT !.inputs =
          << Literal("base_color", Color3Value(Unit, Unit, Unit)),
             Literal("alpha", FloatValue(Unit)),
             Literal("occlusion", FloatValue(Unit)),
             Literal("metallic", FloatValue(Unit)),
             Literal("roughness", FloatValue(Unit)) >>])
  /\ xpc' = "emissive"
  /\ UNCHANGED <<material, m_flattenNodes, m_explicitColorSpaceTransforms,
                 m_hdstormCompat, warnings>>
  /\ UNCHANGED otherThanMtlx

\* lines 523-526
SetEmissiveInput ==
  /\ xpc = "emissive"
  /\ m_doc' = lowerSrgb(addShaderInput(m_doc, "emissive", "color3"),
                        "emissive", material.emissive_texture,
                        makeMxColor3(material.emissive_factor),
                        Color3Value(Unit, Unit, Unit))
  /\ xpc' = "normal"
  /\ UNCHANGED <<material, m_flattenNodes, m_explicitColorSpaceTransforms,
                 m_hdstormCompat, warnings>>
  /\ UNCHANGED otherThanMtlx

\* lines 528-561, without the debug setting for the tangent input
SetNormalInput ==
  /\ xpc = "normal"
  /\ m_doc' = lowerNormal(m_doc, "normal", material.normal_texture)
  /\ xpc' = "occlusion"
  /\ UNCHANGED <<material, m_flattenNodes, m_explicitColorSpaceTransforms,
                 m_hdstormCompat, warnings>>
  /\ UNCHANGED otherThanMtlx

\* lines 563-572: occlusion, alpha_mode and alpha_cutoff
SetOcclusionAndAlphaMode ==
  /\ xpc = "occlusion"
  /\ m_doc' =
       Let(setOcclusionTextureInput(nodeGraphOf(m_doc),
             getInput(shaderNodeOf(m_doc), "occlusion"),
             material.occlusion_texture),
           LAMBDA result :
       Let(addShaderValue(withResult(m_doc, result), "alpha_mode",
                          IntegerValue(alphaModeInt(material.alpha_mode))),
           LAMBDA d :
         IF material.alpha_mode = "mask"
         THEN addShaderValue(d, "alpha_cutoff",
                             FloatValue(material.alpha_cutoff))
         ELSE d))
  /\ xpc' = "pbr"
  /\ UNCHANGED <<material, m_flattenNodes, m_explicitColorSpaceTransforms,
                 m_hdstormCompat, warnings>>
  /\ UNCHANGED otherThanMtlx

\* lines 574-600: base color, alpha, metallic and roughness
SetPbrMetallicRoughnessInputs ==
  /\ xpc = "pbr"
  /\ m_doc' = pbrMetallicRoughnessInputs(m_doc)
  /\ warnings' =
       IF material.has_pbr_metallic_roughness /\ material.alpha_mode # "opaque"
       THEN warnings \o alphaWarnings(
                          material.pbr_metallic_roughness.base_color_texture)
       ELSE warnings
  /\ xpc' = "extensions"
  /\ UNCHANGED <<material, m_flattenNodes, m_explicitColorSpaceTransforms,
                 m_hdstormCompat>>
  /\ UNCHANGED otherThanMtlx

\* lines 602-701: the inputs of the material extensions
SetExtensionInputs ==
  /\ xpc = "extensions"
  /\ m_doc' = sheenInputs(specularInputs(iridescenceInputs(iorInputs(
                volumeInputs(transmissionInputs(clearcoatInputs(
                  emissiveStrengthInputs(m_doc))))))))
  /\ xpc' = "hdstorm"
  /\ UNCHANGED <<material, m_flattenNodes, m_explicitColorSpaceTransforms,
                 m_hdstormCompat, warnings>>
  /\ UNCHANGED otherThanMtlx

\* lines 703-716
SetHdStormTransmission ==
  /\ xpc = "hdstorm"
  /\ m_doc' = hdStormTransmission(m_doc)
  /\ xpc' = "material"
  /\ UNCHANGED <<material, m_flattenNodes, m_explicitColorSpaceTransforms,
                 m_hdstormCompat, warnings>>
  /\ UNCHANGED otherThanMtlx

\* the inputs of the surface node of the glTF PBR implementation graph,
\* which is part of the MaterialX libraries
SurfaceInputs == << <<"bsdf", "BSDF">>, <<"edf", "EDF">>, <<"opacity", "float">> >>

\* line 467, nodeGraph->flattenSubgraphs(): the glTF PBR node gives way to
\* its implementation, shown as the surface node and, for each of its
\* inputs, one node that reads the former inputs of the glTF PBR node
flattenSubgraphs(graph) ==
  Let(shaderNodeOf([nodeGraphs |-> <<graph>>]), LAMBDA shaderNode :
    [graph EXCEPT !.nodes =
       SelectSeq(@, LAMBDA node : node.name # shaderName)
       \o [k \in DOMAIN SurfaceInputs |->
             Node(shaderName \o "_" \o SurfaceInputs[k][1], "gltf_pbr_part",
                  SurfaceInputs[k][2], shaderNode.inputs)]
       \o << Node(shaderName \o "_shader_constructor", "surface",
                  "surfaceshader",
                  [k \in DOMAIN SurfaceInputs |->
                     Connected(SurfaceInputs[k][1], SurfaceInputs[k][2],
                       shaderName \o "_" \o SurfaceInputs[k][1])]) >>])

\* lines 474-476: the surface shader in the node graph
getNodesOfType(graph, type) == SelectSeq(graph.nodes, LAMBDA node : node.type = type)

\* lines 464-494: the surface node moves out of the flattened node graph
extractSurfaceNode(document) ==
  Let(flattenSubgraphs(nodeGraphOf(document)), LAMBDA flattened :
  Let(getNodesOfType(flattened, "surfaceshader")[1], LAMBDA surfaceNode :
    [document EXCEPT
       !.nodes = Append(@,
         Node(shaderName, "surface", "surfaceshader",
              [k \in DOMAIN surfaceNode.inputs |->
                 [Input(surfaceNode.inputs[k].name, surfaceNode.inputs[k].type)
                    EXCEPT !.nodeGraph = nodegraphName,
                           !.output = "out_" \o surfaceNode.inputs[k].name]])),
       !.nodeGraphs[1] =
         [flattened EXCEPT
            !.outputs = @ \o
              [k \in DOMAIN surfaceNode.inputs |->
                 Output("out_" \o surfaceNode.inputs[k].name,
                        surfaceNode.inputs[k].type,
                        surfaceNode.inputs[k].nodeName)],
            !.nodes = SelectSeq(@, LAMBDA node :
                                     node.name # surfaceNode.name)]]))

\* lines 464-499: the surface node of a flattened graph, and the material
CreateMaterialNode ==
  /\ xpc = "material"
  /\ LET document == IF m_flattenNodes THEN extractSurfaceNode(m_doc)
                     ELSE m_doc
         materialNode ==
           Node(materialName, "surfacematerial", "material",
                << Connected("surfaceshader", "surfaceshader", shaderName) >>)
     IN  m_doc' = [document EXCEPT !.nodes = Append(@, materialNode)]
  /\ xpc' = "done"
  /\ UNCHANGED <<material, m_flattenNodes, m_explicitColorSpaceTransforms,
                 m_hdstormCompat, warnings>>
  /\ UNCHANGED otherThanMtlx

MtlxNext ==
  \/ CreateShaderNode
  \/ AddDefaultInputs
  \/ SetEmissiveInput
  \/ SetNormalInput
  \/ SetOcclusionAndAlphaMode
  \/ SetPbrMetallicRoughnessInputs
  \/ SetExtensionInputs
  \/ SetHdStormTransmission
  \/ CreateMaterialNode

SpecMtlx == MtlxInit /\ [][MtlxNext]_vars

(***************************************************************************)
(* Claims about the lowered material.                                      *)
(***************************************************************************)
MaterialDone == xpc = "done"

\* the shader node of the document: the glTF PBR node, or after
\* CreateMaterialNode the node the material is connected to
ShaderNode ==
  IF MaterialDone
  THEN m_doc.nodes[CHOOSE k \in DOMAIN m_doc.nodes :
                     m_doc.nodes[k].name = shaderName]
  ELSE shaderNodeOf(m_doc)

ShaderInputs == {ShaderNode.inputs[k] : k \in DOMAIN ShaderNode.inputs}

\* the connections of an input: to a node, and to an output of a node graph
Connections(input) ==
  (IF input.nodeName # "" THEN 1 ELSE 0)
    + (IF input.output # "" \/ input.nodeGraph # "" THEN 1 ELSE 0)

\* C9: at every point of the lowering of any material, under any
\* configuration (flattened or not, hdStorm compatibility on or off), every
\* input of the shader node is either a literal value or exactly one
\* connection, never both: a connected input has lost its literal, and no
\* later step sets a value on a connected input.
C9_LiteralOrOneConnection ==
  xpc # "convert" =>
    \A input \in ShaderInputs :
      IF hasValue(input) THEN Connections(input) = 0
      ELSE Connections(input) = 1

\* the texture lookup of a texture view succeeds
ValidTexture(textureView) == getTextureMetadata(textureView).found

\* the channels setGltfPbrInputs lowers through setFloatTextureInput or
\* setSrgbTextureInput for material m: shader input, texture view, factor
\* and the default of the channel
Channel(name, textureView, factor, default) ==
  [name |-> name, textureView |-> textureView, factor |-> factor,
   default |-> default]

Channels(m) ==
  {Channel("emissive", m.emissive_texture, m.emissive_factor,
           <<Unit, Unit, Unit>>)}
  \union (IF m.has_pbr_metallic_roughness
          THEN {Channel("metallic",
                        m.pbr_metallic_roughness.metallic_roughness_texture,
                        m.pbr_metallic_roughness.metallic_factor, Unit),
                Channel("roughness",
                        m.pbr_metallic_roughness.metallic_roughness_texture,
                        m.pbr_metallic_roughness.roughness_factor, Unit)}
          ELSE {})
  \union (IF m.has_clearcoat
          THEN {Channel("clearcoat", m.clearcoat.clearcoat_texture,
                        m.clearcoat.clearcoat_factor, Unit),
                Channel("clearcoat_roughness",
                        m.clearcoat.clearcoat_roughness_texture,
                        m.clearcoat.clearcoat_roughness_factor, Unit)}
          ELSE {})
  \union (IF m.has_transmission
          THEN {Channel("transmission", m.transmission.transmission_texture,
                        m.transmission.transmission_factor, 0)}
          ELSE {})
  \union (IF m.has_volume
          THEN {Channel("thickness", m.volume.thickness_texture,
                        m.volume.thickness_factor, 0)}
          ELSE {})
  \union (IF m.has_iridescence
          THEN {Channel("iridescence", m.iridescence.iridescence_texture,
                        m.iridescence.iridescence_factor, Unit)}
          ELSE {})
  \union (IF m.has_specular
          THEN {Channel("specular", m.specular.specular_texture,
                        m.specular.specular_factor, Unit),
                Channel("specular_color", m.specular.specular_color_texture,
                        m.specular.specular_color_factor, <<Unit, Unit, Unit>>)}
          ELSE {})
  \union (IF m.has_sheen
          THEN {Channel("sheen_color", m.sheen.sheen_color_texture,
                        m.sheen.sheen_color_factor, <<0, 0, 0>>),
                Channel("sheen_roughness", m.sheen.sheen_roughness_texture,
                        m.sheen.sheen_roughness_factor, 0)}
          ELSE {})

\* no texture view of the material has a valid texture
Untextured(m) ==
  /\ \A channel \in Channels(m) : ~ValidTexture(channel.textureView)
  /\ ~ValidTexture(m.normal_texture)
  /\ ~ValidTexture(m.occlusion_texture)
  /\ ~ValidTexture(m.pbr_metallic_roughness.base_color_texture)
  /\ ~ValidTexture(m.clearcoat.clearcoat_normal_texture)
  /\ ~ValidTexture(m.iridescence.iridescence_thickness_texture)

\* C10: when the glTF PBR node is kept (nodes are not flattened), a lowered
\* channel with no valid texture whose factor equals the default of the
\* channel has no input at all on the shader node, and an opaque material
\* with no textures has no alpha input.
C10_NoInputForDefaultChannel ==
  MaterialDone /\ ~m_flattenNodes =>
    /\ \A channel \in Channels(material) :
         ~ValidTexture(channel.textureView) /\ channel.factor = channel.default
           => ~hasInput(ShaderNode, channel.name)
    /\ material.alpha_mode = "opaque" /\ Untextured(material)
         => ~hasInput(ShaderNode, "alpha")

(***************************************************************************)
(* The multiplication by a factor.                                         *)
(***************************************************************************)
\* factors of the kinds setGltfPbrInputs hands over: floats, colors, vectors
FactorValues ==
  {FloatValue(f) : f \in FactorSamples}
    \union {Color3Value(f, f, f) : f \in FactorSamples}
    \union {Color3Value(Unit, Unit, Unit \div 2), Vector3Value(Unit, Unit, Unit),
            Vector3Value(Unit, Unit \div 2, Unit)}

NeutralFactor(factor) ==
  \/ factor.type = "float" /\ factor.data = <<Unit>>
  \/ factor.type \in {"color3", "vector3"} /\ factor.data = <<Unit, Unit, Unit>>

\* the node graph of the document with the node created last as source node
SourceNodes ==
  IF m_doc.nodeGraphs = <<>> THEN {}
  ELSE IF nodeGraphOf(m_doc).nodes = <<>> THEN {}
  ELSE LET graph == nodeGraphOf(m_doc)
           node == graph.nodes[Len(graph.nodes)]
       IN  {Returning(graph, [name |-> node.name, type |-> node.type])}

\* result adds to graph exactly one multiply node of the factor's type: in1
\* is connected to the source node, in2 is the literal factor
OneMultiplyNode(graph, factor, result) ==
  /\ Len(result.nodes) = Len(graph.nodes) + 1
  /\ SubSeq(result.nodes, 1, Len(graph.nodes)) = graph.nodes
  /\ result.outputs = graph.outputs
  /\ LET node == result.nodes[Len(result.nodes)]
     IN  /\ node.category = "multiply"
         /\ node.type = factor.type
         /\ result.ret = [name |-> node.name, type |-> node.type]
         /\ \A k \in DOMAIN graph.nodes : graph.nodes[k].name # node.name
         /\ Len(node.inputs) = 2
         /\ node.inputs[1].name = "in1"
         /\ node.inputs[1].nodeName = graph.ret.name
         /\ ~hasValue(node.inputs[1])
         /\ node.inputs[2].name = "in2"
         /\ node.inputs[2].value.data = factor.data
         /\ ~isConnected(node.inputs[2])

\* the node of the node graph that drives a connected shader input
DrivingNodeName(input) ==
  IF input.nodeName # "" THEN input.nodeName
  ELSE LET outputs == nodeGraphOf(m_doc).outputs
       IN  outputs[CHOOSE k \in DOMAIN outputs :
                     outputs[k].name = input.output].nodeName

DrivingNode(input) ==
  LET nodes == nodeGraphOf(m_doc).nodes
  IN  nodes[CHOOSE k \in DOMAIN nodes : nodes[k].name = DrivingNodeName(input)]

\* setGltfPbrInputs has lowered pbr_metallic_roughness and the glTF PBR node
\* still holds the inputs
BaseColorLowered ==
  /\ xpc \in {"extensions", "hdstorm", "material"}
  /\ material.has_pbr_metallic_roughness

\* C11: makeMultiplyFactorNodeIfNecessary returns the node graph and the
\* source node unchanged exactly when the factor is float 1, vector3 (1,1,1)
\* or color3 (1,1,1), and adds exactly one multiply node (in1 connected to
\* the source, in2 the literal factor) otherwise; so for a base color factor
\* of (1,1,1,1) and no base color texture the base_color input is driven by
\* the vertex color geompropvalue node itself.
C11_MultiplyOnlyWhenNecessary ==
  /\ \A graph \in SourceNodes, factor \in FactorValues :
       Let(makeMultiplyFactorNodeIfNecessary(graph, factor), LAMBDA result :
           /\ NeutralFactor(factor) <=> result = graph
           /\ ~NeutralFactor(factor) => OneMultiplyNode(graph, factor, result))
  /\ BaseColorLowered
       /\ material.pbr_metallic_roughness.base_color_factor = <<Unit, Unit, Unit, Unit>>
       /\ ~ValidTexture(material.pbr_metallic_roughness.base_color_texture)
     => LET node == DrivingNode(getInput(shaderNodeOf(m_doc), "base_color"))
        IN  /\ node.category = "geompropvalue"
            /\ node.inputs[1].value = StringValue(m_defaultColorSetName)

\* a base color factor of one without a texture has been lowered, and so has
\* a base color factor of one half, which needs the multiply node
C11_Witness ==
  /\ BaseColorLowered
  /\ material.pbr_metallic_roughness.base_color_factor = <<Unit, Unit, Unit, Unit>>
  /\ ~ValidTexture(material.pbr_metallic_roughness.base_color_texture)
  /\ isConnected(getInput(shaderNodeOf(m_doc), "base_color"))
  /\ DrivingNode(getInput(shaderNodeOf(m_doc), "base_color")).category = "geompropvalue"
  /\ SourceNodes # {}

(***************************************************************************)
(* The type of the node the texture node builders return.                  *)
(***************************************************************************)
\* the texture views of material m
MaterialTextureViews(m) ==
  {m.emissive_texture, m.normal_texture, m.occlusion_texture,
   m.pbr_metallic_roughness.base_color_texture,
   m.pbr_metallic_roughness.metallic_roughness_texture,
   m.clearcoat.clearcoat_texture, m.clearcoat.clearcoat_roughness_texture,
   m.clearcoat.clearcoat_normal_texture,
   m.transmission.transmission_texture, m.volume.thickness_texture,
   m.iridescence.iridescence_texture,
   m.iridescence.iridescence_thickness_texture,
   m.specular.specular_texture, m.specular.specular_color_texture,
   m.sheen.sheen_color_texture, m.sheen.sheen_roughness_texture}

ValidTextureViews(m) == {v \in MaterialTextureViews(m) : ValidTexture(v)}

\* the node graph the builders add to: the one of the document, or a new one
CurrentNodeGraph ==
  IF m_doc.nodeGraphs = <<>> THEN NodeGraph(nodegraphName)
  ELSE nodeGraphOf(m_doc)

\* the node a builder returned is the node of that name and has the type
ReturnsNodeOfType(built, type) ==
  Let(built, LAMBDA graph :
    /\ graph.ret.type = type
    /\ \E k \in DOMAIN graph.nodes :
         /\ graph.nodes[k].name = graph.ret.name
         /\ graph.nodes[k].type = type)

\* the type of the node a texture node builder returned for a shader input:
\* the node that drives the input, or the source of its multiplication by
\* the factor
TerminalNodeType(input) ==
  LET node == DrivingNode(input)
  IN  IF node.category = "multiply" THEN node.inputs[1].type ELSE node.type

\* createMaterialNodes has not added a node to the node graph yet
BeforeLowering == xpc \in {"convert", "defaults"}

\* C12: for a texture of 1, 2, 3 or 4 channels, with and without hdStorm
\* compatibility and explicit colorspace transforms, addFloatTextureNodes
\* returns a node of type float for every channel index, and
\* addFloat3TextureNodes returns a node of type color3 when color is
\* requested and of type vector3 otherwise; so do the nodes they returned
\* for the emissive, metallic and roughness inputs of the material.
C12_TerminalNodeHasDesiredType ==
  /\ BeforeLowering =>
       \A textureView \in ValidTextureViews(material) :
         LET filePath == getTextureFilePath(textureView).filePath
         IN  /\ \A channelIndex \in 0..3 :
                  ReturnsNodeOfType(
                    addFloatTextureNodes(CurrentNodeGraph, textureView,
                                         filePath, channelIndex, Unit),
                    "float")
             /\ \A color \in BOOLEAN :
                  ReturnsNodeOfType(
                    addFloat3TextureNodes(CurrentNodeGraph, textureView,
                                          filePath, color,
                                          Color3Value(Unit, Unit, Unit)),
                    IF color THEN "color3" ELSE "vector3")
  /\ xpc \in {"extensions", "hdstorm", "material"} =>
       /\ ValidTexture(material.emissive_texture) =>
            TerminalNodeType(getInput(shaderNodeOf(m_doc), "emissive")) = "color3"
       /\ material.has_pbr_metallic_roughness
            /\ ValidTexture(material.pbr_metallic_roughness.metallic_roughness_texture)
          => /\ TerminalNodeType(getInput(shaderNodeOf(m_doc), "metallic")) = "float"
             /\ TerminalNodeType(getInput(shaderNodeOf(m_doc), "roughness")) = "float"

\* the lowering has added a conversion to color3 for an emissive texture of
\* four channels
C12_Witness ==
  /\ MaterialDone
  /\ ValidTexture(material.emissive_texture)
  /\ getTextureChannelCount(material.emissive_texture) = 4
  /\ \E k \in DOMAIN nodeGraphOf(m_doc).nodes :
       /\ nodeGraphOf(m_doc).nodes[k].category = "convert"
       /\ nodeGraphOf(m_doc).nodes[k].type = "color3"

(***************************************************************************)
(* Unlit materials.                                                        *)
(***************************************************************************)
\* the callback of createMaterialNodes has returned, and the shader node it
\* filled is still the one convert created
ShaderNodeFilled == xpc = "material"

\* C13: for a material flagged unlit the shader node convert creates is not
\* the glTF PBR node: it has an emission color input and an opacity input
\* only, and none of the inputs metallic, roughness, occlusion and normal.
C13_UnlitBypassesPbr ==
  ShaderNodeFilled /\ material.unlit =>
    /\ shaderNodeOf(m_doc).category # "gltf_pbr"
    /\ Len(shaderNodeOf(m_doc).inputs) <= 2
    /\ \A name \in {"metallic", "roughness", "occlusion", "normal"} :
         ~hasInput(shaderNodeOf(m_doc), name)

(***************************************************************************)
(* Material variants (specification SpecVariants).                         *)
(***************************************************************************)
\* the default variant has been selected and nothing has run since
DefaultVariantAssigned ==
  \/ cpc = "nodes"
  \/ cpc = "done" /\ Len(doc.scenes) > 0

VariantDiagnostics == {d \in diagnostics : d.entity.kind = "variants"}

RequestedVariantInRange ==
  /\ 0 <= m_params.defaultMaterialVariant
  /\ m_params.defaultMaterialVariant < Len(doc.variants)

\* the variant set's name for variant i (from 0) of the document
VariantSelectionName(i) == normalizeVariantName(doc.variants[i + 1].name)

NodesEmitted ==
  \A node \in DOMAIN doc.nodes :
    \E k \in DOMAIN emitted : emitted[k].entity = Entity("node", 0, node)

\* C14: with N >= 1 variants and a default index d that is out of range
\* (d < 0 or d >= N), convert reports a diagnostic, selects variant 0 and goes
\* on to the end; with 0 <= d < N it selects variant d and reports nothing.
C14_DefaultVariantOrZero ==
  /\ DefaultVariantAssigned /\ Len(doc.variants) >= 1 =>
       IF RequestedVariantInRange
       THEN /\ variantSet.selection =
                 VariantSelectionName(m_params.defaultMaterialVariant)
            /\ VariantDiagnostics = {}
       ELSE /\ variantSet.selection = VariantSelectionName(0)
            /\ VariantDiagnostics # {}
  /\ cpc = "variant" => ENABLED AssignDefaultVariant
  /\ cpc = "done" => NodesEmitted

\* two variants and a default index of 5: variant 0 is selected
C14_Witness ==
  /\ DefaultVariantAssigned
  /\ Len(doc.variants) = 2
  /\ m_params.defaultMaterialVariant = 5
  /\ variantSet.selection = VariantSelectionName(0)
  /\ VariantDiagnostics # {}

\* C15: whenever the document declares a material variant, the selection of
\* the variant set at the end of convert is the default variant: no edit of
\* a primitive's variants (which selects variants in turn and clears the
\* selection) comes after the selection of the default, with one scene, with
\* several, and with none.
C15_DefaultSelectionIsLast ==
  cpc = "done" /\ Len(doc.variants) >= 1 =>
    variantSet.selection =
      VariantSelectionName(IF RequestedVariantInRange
                           THEN m_params.defaultMaterialVariant ELSE 0)

\* the target paths at which the Xform of a source node has been defined
NodePaths(node) ==
  {emitted[k].path : k \in EmissionsOf(Entity("node", 0, node))}

\* C16: the scene walk emits exactly one Xform prim per source node: at the
\* end of convert, with one scene, with several and with none, no node of
\* the hierarchy has been emitted at two different target paths and none has
\* been omitted.
C16_OneXformPerNode ==
  cpc = "done" =>
    \A node \in 1..Len(doc.nodes) : Cardinality(NodePaths(node)) = 1

(***************************************************************************)
(* Properties of the node transforms (specification SpecXform).            *)
(***************************************************************************)
\* the positions in the log of the Xform prims of source nodes
NodeEmissions == {k \in DOMAIN emitted : emitted[k].entity.kind = "node"}

\* the types of the prim's ops, in the prim's xformOpOrder
OpTypes(path) ==
  [j \in DOMAIN StagePrim(path).xformOps |-> StagePrim(path).xformOps[j].opType]

\* the decomposed ops of the components the node has, in their order
DecomposedOpTypes(nodeData) ==
  LET present(opType) ==
        \/ opType = "translate" /\ nodeData.has_translation
        \/ opType = "orient" /\ nodeData.has_rotation
        \/ opType = "scale" /\ nodeData.has_scale
  IN  SelectSeq(<<"translate", "orient", "scale">>, present)

\* C17: every Xform emitted for a source node has exactly one transform
\* form: a node with a matrix gets the single matrix op and no translate,
\* orient or scale op, whatever its translation, rotation and scale flags
\* are; a node without a matrix gets only the decomposed ops, in the order
\* translate, orient, scale, for the components it has.
C17_OneTransformForm ==
  \A k \in NodeEmissions :
    LET nodeData == doc.nodes[emitted[k].entity.index]
    IN  OpTypes(emitted[k].path) =
          IF nodeData.has_matrix THEN <<"transform">>
          ELSE DecomposedOpTypes(nodeData)

\* a node with a matrix and all three components, and a node without a
\* matrix and with all three, have both been emitted
C17_Witness ==
  /\ cpc = "done"
  /\ \E k \in NodeEmissions :
       LET nodeData == doc.nodes[emitted[k].entity.index]
       IN  /\ nodeData.has_matrix
           /\ nodeData.has_translation /\ nodeData.has_rotation
           /\ nodeData.has_scale
           /\ OpTypes(emitted[k].path) = <<"transform">>
  /\ \E k \in NodeEmissions :
       LET nodeData == doc.nodes[emitted[k].entity.index]
       IN  /\ ~nodeData.has_matrix
           /\ nodeData.has_translation /\ nodeData.has_rotation
           /\ nodeData.has_scale
           /\ OpTypes(emitted[k].path) = <<"translate", "orient", "scale">>

(***************************************************************************)
(* guc.cpp: guc_convert and convertToUsd.  Every I/O operation succeeds or *)
(* fails; a failure is recorded in ioFailures under the operation's name.  *)
(***************************************************************************)
GltfPbrImpls == {"runtime", "file", "flattened"}

\* the calls of guc_convert: the options, whether usd_path ends in .usdz,
\* and whether the build is against USD 23.08 or later
GucInit ==
  /\ gpc = "start"
  /\ options \in [mtlx_as_usdshade : BOOLEAN, gltf_pbr_impl : GltfPbrImpls,
                  export_usdz : BOOLEAN, pxr_2308 : BOOLEAN]
  /\ ioFailures = {}
  /\ runtimeErrors = {}
  /\ returned = <<>>
  /\ MeshIdle
  /\ SceneIdle
  /\ MtlxIdle
  /\ NamesIdle

\* TF_RUNTIME_ERROR(message); return false;
ReturnFalse(message) ==
  /\ runtimeErrors' = runtimeErrors \cup {message}
  /\ returned' = <<FALSE>>
  /\ gpc' = "returned"

\* an I/O operation that fails
Failed(operation) == ioFailures' = ioFailures \cup {operation}

\* lines 74-86: the combinations of options that are not supported
CheckOptions ==
  /\ gpc = "start"
  /\ IF options.mtlx_as_usdshade /\ options.gltf_pbr_impl = "flattened"
     THEN ReturnFalse("mtlx-as-usdshade not supported with node flattening")
     ELSE IF options.pxr_2308 /\ options.gltf_pbr_impl = "file"
     THEN ReturnFalse("file glTF PBR implementation option not supported with USD v23.08+")
     ELSE /\ gpc' = IF options.export_usdz THEN "tmpdir" ELSE "load"
          /\ UNCHANGED <<runtimeErrors, returned>>
  /\ UNCHANGED <<options, ioFailures>>
  /\ UNCHANGED otherThanGuc

\* lines 98-111: the temporary directory of a USDZ export
MakeTmpSubdir ==
  /\ gpc = "tmpdir"
  /\ \E created \in BOOLEAN :
       IF created
       THEN /\ gpc' = "load"
            /\ UNCHANGED <<ioFailures, runtimeErrors, returned>>
       ELSE /\ Failed("ArchMakeTmpSubdir")
            /\ ReturnFalse("unable to create temporary directory for USDZ contents")
  /\ UNCHANGED options
  /\ UNCHANGED otherThanGuc

\* lines 113-118
LoadGltf ==
  /\ gpc = "load"
  /\ \E loaded \in BOOLEAN :
       IF loaded
       THEN /\ gpc' = "convert"
            /\ UNCHANGED <<ioFailures, runtimeErrors, returned>>
       ELSE /\ Failed("load_gltf")
            /\ ReturnFalse("unable to load glTF file")
  /\ UNCHANGED options
  /\ UNCHANGED otherThanGuc

\* lines 33-68 and 120-130: convertToUsd opens the stage, converts, saves
\* the stage and returns true; the outcome of stage->Save() is not looked at
ConvertToUsd ==
  /\ gpc = "convert"
  /\ \E opened \in BOOLEAN, saved \in BOOLEAN :
       IF ~opened
       THEN /\ Failed("UsdStage::CreateNew")
            /\ ReturnFalse("unable to open stage")
       ELSE /\ ioFailures' = ioFailures \cup
                             (IF saved THEN {} ELSE {"UsdStage::Save"})
            /\ IF options.export_usdz
               THEN /\ gpc' = "usdz"
                    /\ UNCHANGED returned
               ELSE /\ gpc' = "returned"
                    /\ returned' = <<TRUE>>
            /\ UNCHANGED runtimeErrors
  /\ UNCHANGED options
  /\ UNCHANGED otherThanGuc

\* lines 136-142: the directory the USDZ file goes to
CreateDestinationDirectory ==
  /\ gpc = "usdz"
  /\ \E created \in BOOLEAN :
       IF created
       THEN /\ gpc' = "addUsd"
            /\ UNCHANGED <<ioFailures, runtimeErrors, returned>>
       ELSE /\ Failed("create_directories")
            /\ ReturnFalse("unable to create destination directory")
  /\ UNCHANGED options
  /\ UNCHANGED otherThanGuc

\* lines 144-152: the stage's file is added to the archive
AddUsdFile ==
  /\ gpc = "addUsd"
  /\ \E added \in BOOLEAN :
       IF added
       THEN /\ gpc' = "addExports"
            /\ UNCHANGED <<ioFailures, runtimeErrors, returned>>
       ELSE /\ Failed("AddFile(usd)")
            /\ ReturnFalse("unable to usdzip")
  /\ UNCHANGED options
  /\ UNCHANGED otherThanGuc

\* lines 153-164: the exported files are added to the archive; a file that
\* cannot be added is reported and the loop goes on
AddFileExports ==
  /\ gpc = "addExports"
  /\ \E added \in BOOLEAN :
       IF added
       THEN UNCHANGED <<ioFailures, runtimeErrors>>
       ELSE /\ Failed("AddFile(export)")
            /\ runtimeErrors' = runtimeErrors \cup {"unable to usdzip"}
  /\ gpc' = "saveUsdz"
  /\ UNCHANGED <<options, returned>>
  /\ UNCHANGED otherThanGuc

\* lines 166-176: the archive is saved and the temporary directory removed
SaveUsdz ==
  /\ gpc = "saveUsdz"
  /\ \E saved \in BOOLEAN :
       IF saved
       THEN /\ gpc' = "returned"
            /\ returned' = <<TRUE>>
            /\ UNCHANGED <<ioFailures, runtimeErrors>>
       ELSE /\ Failed("UsdZipFileWriter::Save")
            /\ ReturnFalse("unable to save USDZ file")
  /\ UNCHANGED options
  /\ UNCHANGED otherThanGuc

GucNext ==
  \/ CheckOptions
  \/ MakeTmpSubdir
  \/ LoadGltf
  \/ ConvertToUsd
  \/ CreateDestinationDirectory
  \/ AddUsdFile
  \/ AddFileExports
  \/ SaveUsdz

SpecGuc == GucInit /\ [][GucNext]_vars

(***************************************************************************)
(* Properties of guc_convert (specification SpecGuc).                      *)
(***************************************************************************)
\* the failures the conversion cannot go on after: of the target stage and
\* of the root glTF document
FatalIoFailures == {"UsdStage::CreateNew", "UsdStage::Save", "load_gltf"}

\* C18: guc_convert returns false whenever the target stage cannot be
\* opened, the target stage cannot be saved or the root glTF document cannot
\* be loaded, and it returns false for no other reason than a failed I/O
\* operation.
C18_FalseExactlyOnFatalIo ==
  gpc = "returned" =>
    /\ ioFailures \cap FatalIoFailures # {} => returned = <<FALSE>>
    /\ returned = <<FALSE>> => ioFailures # {}

(***************************************************************************)
(* Properties of cameras and lights (specification Spec).                  *)
(***************************************************************************)
InvalidCameras ==
  {Entity("camera", 0, c) : c \in {c \in DOMAIN doc.cameras :
                                     doc.cameras[c].type = "invalid"}}
InvalidLights ==
  {Entity("light", 0, l) : l \in {l \in DOMAIN doc.lights :
                                    doc.lights[l].type = "invalid"}}

\* the entity the innermost call is about to convert is an invalid one
AtInvalidCamera ==
  /\ stack # <<>>
  /\ Top.pc = "camera"
  /\ Entity("camera", 0, doc.nodes[Top.node].camera) \in InvalidCameras
AtInvalidLight ==
  /\ stack # <<>>
  /\ Top.pc = "light"
  /\ Entity("light", 0, doc.nodes[Top.node].light) \in InvalidLights

\* the step reports the error and leaves the stage and the path cache as
\* they are; the call goes on with the node's next content
SkipsEntity(entity, message, next) ==
  /\ Diagnostic(entity, message) \in diagnostics'
  /\ stage' = stage
  /\ emitted' = emitted
  /\ uniquePaths' = uniquePaths
  /\ Len(stack') = Len(stack)
  /\ stack'[Len(stack)] = [Top EXCEPT !.pc = next]

\* something has been emitted for the entity right below the prim at path
EmittedBelow(path, entity) ==
  \E k \in EmissionsOf(entity) : emitted[k].parent = path

\* the rest of a node emitted at path has been converted: its mesh, its
\* camera and its light unless invalid, and its children
RestConverted(node, path) ==
  LET nodeData == doc.nodes[node]
  IN  /\ nodeData.mesh # 0 => EmittedBelow(path, Entity("mesh", 0, nodeData.mesh))
      /\ nodeData.camera # 0 /\ Entity("camera", 0, nodeData.camera) \notin InvalidCameras
           => EmittedBelow(path, Entity("camera", 0, nodeData.camera))
      /\ nodeData.light # 0 /\ Entity("light", 0, nodeData.light) \notin InvalidLights
           => EmittedBelow(path, Entity("light", 0, nodeData.light))
      /\ \A j \in DOMAIN nodeData.children :
           EmittedBelow(path, Entity("node", 0, nodeData.children[j]))

\* the nodes that refer to an invalid camera or light
NodesWithInvalidContent ==
  {n \in DOMAIN doc.nodes :
     \/ Entity("camera", 0, doc.nodes[n].camera) \in InvalidCameras
     \/ Entity("light", 0, doc.nodes[n].light) \in InvalidLights}

NothingForInvalidEntities ==
  /\ \A entity \in InvalidCameras \cup InvalidLights :
       /\ EmissionsOf(entity) = {}
       /\ ~overridePrimInPathMap(uniquePaths, entity)
  /\ cpc = "done" =>
       \A k \in NodeEmissions :
         emitted[k].entity.index \in NodesWithInvalidContent =>
           RestConverted(emitted[k].entity.index, emitted[k].path)

SkipInvalidEntity ==
  /\ AtInvalidCamera =>
       SkipsEntity(Entity("camera", 0, doc.nodes[Top.node].camera),
                   "invalid camera type; skipping",
                   AfterCamera(doc.nodes[Top.node]))
  /\ AtInvalidLight =>
       SkipsEntity(Entity("light", 0, doc.nodes[Top.node].light),
                   "invalid light type; skipping",
                   AfterLight(doc.nodes[Top.node]))

LowerableContent(node) ==
  {e \in SharedEntities : node \in NodesOf(e) /\ Lowers(e)}

\* the calls of createNodesRecursively that have reached the loop over the
\* node's children
AtChildren == {i \in DOMAIN stack : stack[i].pc \in {"children", "child", "return"}}

\* the path of the prim below which the prim at path was emitted
ParentPath(path) ==
  emitted[CHOOSE j \in DOMAIN emitted : emitted[j].path = path].parent

\* the path of the node Xform an emission for a mesh primitive, a camera or
\* a light belongs to; a primitive lies below the Xform of its mesh
OwnerNodePath(k) ==
  IF emitted[k].entity.kind = "primitive" THEN ParentPath(emitted[k].parent)
  ELSE emitted[k].parent

\* the paths of the prims the prim at path lies below
RECURSIVE PathAncestors(_)
PathAncestors(path) ==
  IF \E j \in DOMAIN emitted : emitted[j].path = path /\ emitted[j].parent # ""
  THEN {ParentPath(path)} \cup PathAncestors(ParentPath(path))
  ELSE {}

\* the emissions of node Xforms above the node of emission k whose node
\* refers to the entity of emission k
AncestorsSharing(k) ==
  {a \in NodeEmissions :
     /\ emitted[a].path \in PathAncestors(OwnerNodePath(k))
     /\ emitted[a].entity.index \in NodesOf(emitted[k].entity)}

LoweredAt(entity, path) ==
  \E k \in EmissionsOf(entity) :
    emitted[k].path = path /\ FullyLowered(emitted[k])

\* every entry of the cache is for a mesh primitive, a camera or a light
\* that has been fully lowered at the recorded path
CacheHoldsLoweredEntities ==
  \A entity \in DOMAIN uniquePaths :
    /\ entity \in SharedEntities
    /\ LoweredAt(entity, uniquePaths[entity])

\* every reference emitted is an untyped override prim that targets the path
\* recorded for its entity, where the fully lowered prim is
ReferencesTargetLoweredPrims ==
  \A k \in DOMAIN emitted :
    emitted[k].specifier = "over" =>
      /\ overridePrimInPathMap(uniquePaths, emitted[k].entity)
      /\ ReferenceOnly(emitted[k], uniquePaths[emitted[k].entity])
      /\ LoweredAt(emitted[k].entity, emitted[k].reference)

\* a step keeps every entry of the cache as it is
CacheEntriesKept ==
  \A entity \in DOMAIN uniquePaths :
    /\ entity \in DOMAIN uniquePaths'
    /\ uniquePaths'[entity] = uniquePaths[entity]

\* C21: the path cache starts empty; an entry is written for a mesh
\* primitive, a camera or a light only once the entity is fully lowered at
\* the recorded path; an entry is never overwritten or removed; so every
\* reference that overridePrimInPathMap emits targets a path at which a
\* fully lowered prim exists.
C21_PathCacheInvariant ==
  /\ [](cpc = "start" => uniquePaths = <<>>)
  /\ [](CacheHoldsLoweredEntities /\ ReferencesTargetLoweredPrims)
  /\ [][CacheEntriesKept]_vars

\* the cache holds a primitive, a camera and a light, and a reference has
\* been emitted for each of the three
C21_Witness ==
  /\ cpc = "done"
  /\ \A kind \in {"primitive", "camera", "light"} :
       /\ \E entity \in DOMAIN uniquePaths : entity.kind = kind
       /\ \E k \in DOMAIN emitted :
            emitted[k].entity.kind = kind /\ emitted[k].specifier = "over"

(***************************************************************************)
(* Termination of createMeshPrimitive (specification SpecMeshFair).        *)
(***************************************************************************)
\* C22: createMeshPrimitive terminates for every primitive: the loops over
\* the COLOR_n and the TEXCOORD_n sets end, also when such an attribute
\* cannot be read or a COLOR_n attribute is of a type other than vec3 and
\* vec4; the attribute is ignored and the primitive, once its indices and
\* points are read, is emitted (unless the process dies over its tangents).
C22_CreateMeshPrimitiveTerminates ==
  /\ <>(mpc \in {"done", "failed", "crashed"})
  /\ (mpc = "colors") ~> (mpc \in {"done", "crashed"})

(***************************************************************************)
(* Properties of synthesized normals (specification SpecMesh).             *)
(***************************************************************************)
\* C28: normals synthesized for a primitive with triangle topology are one
\* flat normal per triangle, not shared between triangles: the normals
\* array of the mesh, authored with uniform interpolation, has one entry per
\* triangle (a third of the number of indices), and entry t is the normal of
\* triangle t's own three positions, also when triangles share vertices.
C28_OneFlatNormalPerTriangle ==
  MeshDone /\ mesh.normalsGenerated =>
    /\ hasTriangleTopology(primitiveData.type)
    /\ mesh.normalsInterpolation = "uniform"
    /\ Len(mesh.normals) = Len(mesh.faceVertexIndices) \div 3
    /\ \A t \in DOMAIN mesh.normals : mesh.normals[t] = FaceNormal(t - 1)

(***************************************************************************)
(* Properties of authored tangents (specification SpecMesh).               *)
(***************************************************************************)
\* the TANGENT accessor has been read and its data used for the bitangents
TangentsConsumed ==
  /\ mpc \in {"emit", "done", "crashed"}
  /\ ~generatedNormals
  /\ attributes.tangent = "readable"

\* C29: whenever the data of the TANGENT accessor is used to derive the
\* bitangents, the normals array has at least as many elements as the
\* tangents array, so that every normals[i] read is inside the array; for
\* every topology, points and lines with TANGENT and without NORMAL included.
C29_NormalsCoverTangents ==
  TangentsConsumed =>
    /\ Len(normals) >= Len(tangents)
    /\ mpc # "crashed"
    /\ \A i \in DOMAIN bitangents : bitangents[i] # GarbageValue

(***************************************************************************)
(* A texture lookup that fails.                                            *)
(***************************************************************************)
\* every input has been lowered and the hdStorm step has not run yet
InputsLowered == xpc = "hdstorm"

TextureInput(name, textureView) == [name |-> name, textureView |-> textureView]

\* the inputs of material m that setNormalTextureInput lowers
NormalInputs(m) ==
  {TextureInput("normal", m.normal_texture)}
  \union (IF m.has_clearcoat
          THEN {TextureInput("clearcoat_normal",
                             m.clearcoat.clearcoat_normal_texture)}
          ELSE {})

\* the inputs of material m that setDiffuseTextureInput and
\* setAlphaTextureInput lower from the base color texture
VertexColorInputs(m) ==
  IF m.has_pbr_metallic_roughness
  THEN {TextureInput("base_color",
                     m.pbr_metallic_roughness.base_color_texture)}
       \union (IF m.alpha_mode # "opaque"
               THEN {TextureInput("alpha",
                       m.pbr_metallic_roughness.base_color_texture)}
               ELSE {})
  ELSE {}

\* the inputs of material m that keep a literal of their own when the
\* lookup fails: occlusion and the iridescence thickness
OwnLiteralInputs(m) ==
  {[name |-> "occlusion", textureView |-> m.occlusion_texture,
    literal |-> FloatValue(Unit)]}
  \union (IF m.has_iridescence
          THEN {[name |-> "iridescence_thickness",
                 textureView |-> m.iridescence.iridescence_thickness_texture,
                 literal |-> FloatValue(m.iridescence.iridescence_thickness_max)]}
          ELSE {})

\* every input of material m that is lowered from a texture view
TextureInputs(m) ==
  {TextureInput(c.name, c.textureView) : c \in Channels(m)}
  \union {TextureInput(c.name, c.textureView) : c \in OwnLiteralInputs(m)}
  \union NormalInputs(m) \union VertexColorInputs(m)

\* the factor of a channel as the value of its input
FactorLiteral(channel) ==
  IF channel.name \in {"emissive", "specular_color", "sheen_color"}
  THEN makeMxColor3(channel.factor)
  ELSE FloatValue(channel.factor)

\* the image nodes of the node graph
ImageNodes ==
  IF m_doc.nodeGraphs = <<>> THEN {}
  ELSE {nodeGraphOf(m_doc).nodes[k] : k \in
          {j \in DOMAIN nodeGraphOf(m_doc).nodes :
             nodeGraphOf(m_doc).nodes[j].category = "image"}}

\* the paths of the images of the valid texture views of material m: the
\* path to refer to the image by, and the path the image was written to
ImagePaths(m) ==
  {getTextureFilePath(v).filePath : v \in ValidTextureViews(m)}
  \union {getTextureMetadata(v).metadata.filePath : v \in ValidTextureViews(m)}

\* every image node reads an image of a valid texture view of the material,
\* which is in the metadata map
ImageNodesReferToMetadata ==
  \A node \in ImageNodes :
    /\ getValueString(getInput(node, "file").value)[1] \in ImagePaths(material)
    /\ \E image \in DOMAIN m_imageMetadataMap :
         getValueString(getInput(node, "file").value)[1]
           \in {m_imageMetadataMap[image].refPath,
                m_imageMetadataMap[image].filePath}

AlphaTextured ==
  /\ xpc \in {"extensions", "hdstorm", "material"}
  /\ material.has_pbr_metallic_roughness
  /\ material.alpha_mode # "opaque"
  /\ ValidTexture(material.pbr_metallic_roughness.base_color_texture)

\* the image node of the alpha input: alpha is lowered before the base
\* color, so it is the first image node of the graph
AlphaImageNode ==
  LET nodes == nodeGraphOf(m_doc).nodes
  IN  nodes[CHOOSE k \in DOMAIN nodes :
              /\ nodes[k].category = "image"
              /\ \A j \in 1..(k - 1) : nodes[j].category # "image"]

\* the components the graph extracts from the alpha image node
AlphaComponentsRead ==
  LET nodes == nodeGraphOf(m_doc).nodes
  IN  {getValueString(getInput(nodes[k], "index").value)[1] :
         k \in {j \in DOMAIN nodes :
                  /\ nodes[j].category = "extract"
                  /\ getInput(nodes[j], "in").nodeName = AlphaImageNode.name}}

\* the component of the image node that holds channel channelIndex of a
\* texture: hdStorm presents the second channel of a two-channel texture
\* as the fourth component
ComponentOfChannel(channelCount, channelIndex) ==
  IF m_hdstormCompat /\ channelCount = 2 /\ channelIndex = 1 THEN 3
  ELSE channelIndex

\* the alpha input is driven by the product of the vertex opacity and the
\* texture value
AlphaIsConnected ==
  LET alpha == getInput(ShaderNode, "alpha")
  IN  /\ ~hasValue(alpha)
      /\ Connections(alpha) = 1
      /\ DrivingNode(alpha).category = "multiply"
      /\ DrivingNode(alpha).type = "float"

\* C24: for a non-opaque material whose base color texture is valid,
\* setAlphaTextureInput leaves the alpha input connected and the lowering
\* goes on; for a texture of four channels it reads channel 3 and warns
\* about nothing, for any other channel count it warns once and reads
\* channel 1 of a texture of two channels and channel 0 otherwise.
C24_AlphaChannelFallback ==
  AlphaTextured =>
    LET channelCount ==
          getTextureChannelCount(material.pbr_metallic_roughness.base_color_texture)
        channelIndex == IF channelCount = 4 THEN 3
                        ELSE IF channelCount = 2 THEN 1 ELSE 0
    IN  /\ AlphaIsConnected
        /\ alphaChannelIndex(channelCount) = channelIndex
        /\ IF channelCount = 4 THEN warnings = <<>>
           ELSE /\ Len(warnings) = 1
                /\ warnings[1].channelCount = channelCount
        /\ IF AlphaImageNode.type = "float"
           THEN channelIndex = 0 /\ AlphaComponentsRead = {}
           ELSE AlphaComponentsRead =
                  {ComponentOfChannel(channelCount, channelIndex)}

\* the alpha of a blended material has been lowered from a texture of two
\* channels, with a warning, and reads the second channel
C24_Witness ==
  /\ AlphaTextured
  /\ ~m_hdstormCompat
  /\ material.alpha_mode = "blend"
  /\ getTextureChannelCount(material.pbr_metallic_roughness.base_color_texture) = 2
  /\ Len(warnings) = 1
  /\ AlphaComponentsRead = {1}

(***************************************************************************)
(* Colorspaces: attributes, or explicit transfer functions.                *)
(***************************************************************************)
\* the valid texture views of material m that are read as colors
ValidColorViews(m) ==
  {v \in {m.emissive_texture}
         \union (IF m.has_pbr_metallic_roughness
                 THEN {m.pbr_metallic_roughness.base_color_texture} ELSE {})
         \union (IF m.has_specular
                 THEN {m.specular.specular_color_texture} ELSE {})
         \union (IF m.has_sheen
                 THEN {m.sheen.sheen_color_texture} ELSE {}) :
     ValidTexture(v)}

\* the threshold nodes of the transfer functions in the node graph
TransferNodes ==
  IF m_doc.nodeGraphs = <<>> THEN {}
  ELSE {nodeGraphOf(m_doc).nodes[k] : k \in
          {j \in DOMAIN nodeGraphOf(m_doc).nodes :
             nodeGraphOf(m_doc).nodes[j].category = "ifgreatereq"}}

\* those of the sRGB to linear direction: the threshold is 0.04045
SrgbToLinearNodes ==
  {node \in TransferNodes :
     getInput(node, "value1").value = FloatValue(404500)}

\* the image node reads the base color texture for the alpha input
ReadsAlpha(node) ==
  /\ material.has_pbr_metallic_roughness
  /\ material.alpha_mode # "opaque"
  /\ ValidTexture(material.pbr_metallic_roughness.base_color_texture)
  /\ node = AlphaImageNode

\* without explicit transforms: the document is linear, every file input
\* has a colorspace (sRGB for a color texture, linear for a data texture),
\* and there is no transfer function
ColorspaceAttributes ==
  /\ m_doc.colorspace = MTLX_COLORSPACE_LINEAR
  /\ TransferNodes = {}
  /\ \A node \in ImageNodes :
       getInput(node, "file").colorspace
         \in {MTLX_COLORSPACE_SRGB, MTLX_COLORSPACE_LINEAR}
  /\ xpc \in {"hdstorm", "material", "done"} =>
       \A node \in ImageNodes :
         getInput(node, "file").colorspace =
           IF ValidColorViews(material) # {} /\ ~ReadsAlpha(node)
           THEN MTLX_COLORSPACE_SRGB ELSE MTLX_COLORSPACE_LINEAR

\* with explicit transforms: no colorspace on the document, on a node or
\* on an input of an image node
NoColorspaceAttributes ==
  /\ m_doc.colorspace = ""
  /\ m_doc.nodeGraphs # <<>> =>
       \A k \in DOMAIN nodeGraphOf(m_doc).nodes :
         nodeGraphOf(m_doc).nodes[k].colorspace = ""
  /\ \A node \in ImageNodes :
       \A k \in DOMAIN node.inputs : node.inputs[k].colorspace = ""

\* no image node has a colorspace on its file input in a graph with a
\* transfer function
NeverBoth ==
  \A node \in ImageNodes :
    ~(getInput(node, "file").colorspace # "" /\ TransferNodes # {})

\* the statement as the specification has it: with explicit transforms
\* every color texture has the sRGB to linear network on its three channels
C25_Original ==
  /\ m_hdstormCompat => m_explicitColorSpaceTransforms
  /\ ~m_explicitColorSpaceTransforms => ColorspaceAttributes
  /\ m_explicitColorSpaceTransforms =>
       /\ NoColorspaceAttributes
       /\ (xpc \in {"hdstorm", "material", "done"}
             /\ ValidColorViews(material) # {})
            => Cardinality(SrgbToLinearNodes) = 3
  /\ NeverBoth

\* C25: the two colorspace mechanisms exclude each other. Explicit
\* transforms are in effect when they are asked for or hdStorm
\* compatibility is set. When they are not, the document declares the
\* linear colorspace, every file input of an image node has a colorspace
\* attribute (sRGB for a color texture, linear for a data texture) and no
\* transfer function is in the graph. When they are, neither the document
\* nor any input of an image node has a colorspace attribute, and a color
\* texture has the sRGB to linear network on each of its three channels,
\* unless hdStorm compatibility is set and USD takes the image for sRGB: then
\* it has none. No image node has both.
C25_ColorspaceMechanismsExclusive ==
  /\ m_hdstormCompat => m_explicitColorSpaceTransforms
  /\ ~m_explicitColorSpaceTransforms => ColorspaceAttributes
  /\ m_explicitColorSpaceTransforms =>
       /\ NoColorspaceAttributes
       /\ xpc \in {"hdstorm", "material", "done"} =>
            \A v \in ValidColorViews(material) :
              IF m_hdstormCompat /\ isTextureSrgbInUsd(v)
              THEN SrgbToLinearNodes = {}
              ELSE Cardinality(SrgbToLinearNodes) = 3
  /\ NeverBoth

\* an emissive texture has been lowered with explicit transforms: its
\* channels are converted and its file input has no colorspace
C25_Witness ==
  /\ MaterialDone
  /\ ValidTexture(material.emissive_texture)
  /\ m_explicitColorSpaceTransforms
  /\ ~m_hdstormCompat
  /\ Cardinality(SrgbToLinearNodes) = 3
  /\ \A node \in ImageNodes : getInput(node, "file").colorspace = ""

(***************************************************************************)
(* The default value of an image node.                                     *)
(***************************************************************************)
\* the number of components of a value of a type
ChannelsOfType(type) ==
  CASE type = "float" -> 1
    [] type = "vector2" -> 2
    [] type \in {"color3", "vector3"} -> 3
    [] type \in {"color4", "vector4"} -> 4

\* the logical defaults the lowering passes on: a float or three components
LogicalDefaults ==
  {FloatValue(f) : f \in FactorSamples}
  \union {Color3Value(f, Unit, 0) : f \in FactorSamples}
  \union {Vector3Value(f, Unit \div 2, Unit) : f \in FactorSamples}

\* the texture types a default of that type is adjusted to that have more
\* channels than the default
WiderTextureTypes(defaultValue) ==
  CASE defaultValue.type = "float" ->
         {"vector2", "color3", "vector3", "color4", "vector4"}
    [] defaultValue.type = "color3" -> {"color4"}
    [] defaultValue.type = "vector3" -> {"vector4"}

\* C26: the default value written on an image node is the logical default in
\* the channel layout of the texture: for every logical default and every
\* texture type with more channels the components of the default are kept,
\* and the alpha component added for a texture type of four channels is 1,
\* also for a float default; so it is on every image node of the graph.
C26_DefaultKeepsComponentsAlphaOne ==
  /\ xpc = "convert" =>
       \A defaultValue \in LogicalDefaults :
         \A textureType \in WiderTextureTypes(defaultValue) :
           LET adjusted == getTextureTypeAdjustedDefaultValueString(
                             defaultValue, textureType)
           IN  /\ Len(adjusted) = ChannelsOfType(textureType)
               /\ \A k \in DOMAIN defaultValue.data :
                    adjusted[k] = defaultValue.data[k]
               /\ ChannelsOfType(textureType) = 4 => adjusted[4] = Unit
  /\ \A node \in ImageNodes :
       hasInput(node, "default") /\ ChannelsOfType(node.type) = 4 =>
         getValueString(getInput(node, "default").value)[4] = Unit

(***************************************************************************)
(* The filter type of an image node.                                       *)
(***************************************************************************)
\* no filter, and the six filters of the glTF specification
SamplerFilters == {0, 9728, 9729, 9984, 9985, 9986, 9987}

\* a texture with a sampler of these filters
FilteredTextureView(min_filter, mag_filter) ==
  [SampledTextureView EXCEPT !.min_filter = min_filter,
                             !.mag_filter = mag_filter]

\* closest for the NEAREST filters, linear for the LINEAR filters
FilterTypeOf(filter) ==
  IF filter \in {9728, 9984, 9986} THEN "closest" ELSE "linear"

\* the filtertype input expected for a sampler: of the mag filter when it
\* is set, of the min filter when only that is set, none otherwise
ExpectedFilterInputs(textureView) ==
  IF ~textureView.sampler THEN <<>>
  ELSE IF textureView.mag_filter # 0
  THEN << Literal("filtertype",
                  StringValue(FilterTypeOf(textureView.mag_filter))) >>
  ELSE IF textureView.min_filter # 0
  THEN << Literal("filtertype",
                  StringValue(FilterTypeOf(textureView.min_filter))) >>
  ELSE <<>>

\* C27: whenever the sampler of a texture defines a min or a mag filter,
\* the image node has a filtertype input, closest for the NEAREST filters
\* and linear for the LINEAR filters, taken from the mag filter when that is
\* set (also when min and mag differ) and from the min filter when only min
\* is set; without a sampler, or with a sampler that defines neither filter,
\* the image node has no filtertype input.
C27_FilterTypeFromSampler ==
  /\ xpc = "convert" =>
       /\ \A min_filter \in SamplerFilters, mag_filter \in SamplerFilters :
            filterInputs(FilteredTextureView(min_filter, mag_filter))
              = ExpectedFilterInputs(FilteredTextureView(min_filter, mag_filter))
       /\ filterInputs(TextureView(<<4, TRUE>>)) = <<>>
  /\ \A textureView \in ValidTextureViews(material) :
       \A node \in ImageNodes :
         SelectSeq(node.inputs, LAMBDA input : input.name = "filtertype")
           = ExpectedFilterInputs(textureView)

(***************************************************************************)
(* Converter::createMaterials and makeUniqueMaterialName: the names of the *)
(* materials.  A name is a sequence of characters.                         *)
(***************************************************************************)
\* naming.cpp lines 88-96
MTLX_TYPE_NAME_SET ==
  {"integer", "boolean", "float", "color3", "color4", "vector2", "vector3",
   "vector4", "matrix33", "matrix44", "string", "filename", "geomname",
   "integerarray", "floatarray", "color3array", "color4array", "vector2array",
   "vector3array", "vector4array", "stringarray", "geomnamearray",
   "color", "shader", "material"}

\* DEFAULT_MATERIAL_NAME, by its characters
defaultMaterialName == <<"m", "a", "t">>

\* mx::createValidName: every character that is not a letter, a digit, an
\* underscore or a colon becomes an underscore
createValidName(name) ==
  [j \in 1..Len(name) |->
     IF IsAlnum(name[j]) \/ name[j] \in {"_", ":"} THEN name[j] ELSE "_"]

\* naming.cpp lines 103-109: the base name of a material
materialBaseName(baseName) ==
  LET valid == TfMakeValidIdentifier(createValidName(baseName))
  IN  IF valid = <<>> \/ valid[1] = "_" THEN defaultMaterialName ELSE valid

\* a name that is refused although no material has it and type names are
\* not looked at
nameIsTaken_ignoringTypeNames(name, existingNames) == name \in existingNames

\* naming.cpp lines 114-115: the condition of the suffix search
nameIsTaken(name, existingNames) ==
  name \in existingNames \/ Str(name) \in MTLX_TYPE_NAME_SET

\* the most source materials of a document
MaxMaterials == 3

\* the names of source materials: none, empty, the default material's, a
\* plain one, one that looks like a suffixed name, a MaterialX type name,
\* and names that are no identifiers
MaterialNameSamples ==
  {NoName, Name(<<>>), Name(defaultMaterialName), Name(<<"a">>),
   Name(<<"a", "_", "1">>), Name(<<"b", "o", "o", "l", "e", "a", "n">>),
   Name(<<"1", "a">>), Name(<<"a", ":", "1">>)}

\* converter.cpp line 391: no name is given yet
NamesInit ==
  /\ npc = "default"
  /\ materialsData \in SeqsUpTo(MaterialNameSamples, MaxMaterials)
  /\ createDefaultMaterial \in BOOLEAN
  /\ materialNameSet = {}
  /\ m_materialNames = <<>>
  /\ uniqueName = NoUniqueName
  /\ MeshIdle
  /\ SceneIdle
  /\ MtlxIdle
  /\ GucIdle

\* converter.cpp lines 393-405: the name of the default material
CreateDefaultMaterial ==
  /\ npc = "default"
  /\ materialNameSet' = IF createDefaultMaterial THEN {defaultMaterialName}
                        ELSE {}
  /\ npc' = "materials"
  /\ UNCHANGED <<materialsData, createDefaultMaterial, m_materialNames,
                 uniqueName>>
  /\ UNCHANGED otherThanNames

\* converter.cpp lines 411-418 and naming.cpp lines 100-113: the call of
\* makeUniqueMaterialName for the next material, up to its loop
BeginUniqueMaterialName ==
  /\ npc = "materials"
  /\ Len(m_materialNames) < Len(materialsData)
  /\ LET gmat == materialsData[Len(m_materialNames) + 1]
         baseName == materialBaseName(NameOr(gmat, <<>>))
     IN  uniqueName' = [baseName |-> baseName, name |-> baseName, i |-> 1]
  /\ npc' = "search"
  /\ UNCHANGED <<materialsData, createDefaultMaterial, materialNameSet,
                 m_materialNames>>
  /\ UNCHANGED otherThanNames

\* naming.cpp lines 114-119: one round of the suffix search
TryNextMaterialName ==
  /\ npc = "search"
  /\ nameIsTaken(uniqueName.name, materialNameSet)
  /\ uniqueName' =
       [uniqueName EXCEPT
          !.name = uniqueName.baseName \o <<"_">> \o to_string(uniqueName.i),
          !.i = uniqueName.i + 1]
  /\ UNCHANGED <<npc, materialsData, createDefaultMaterial, materialNameSet,
                 m_materialNames>>
  /\ UNCHANGED otherThanNames

\* naming.cpp line 121 and converter.cpp lines 418-419: the name found is
\* the material's and is taken from now on
ReturnUniqueMaterialName ==
  /\ npc = "search"
  /\ ~nameIsTaken(uniqueName.name, materialNameSet)
  /\ m_materialNames' = Append(m_materialNames, uniqueName.name)
  /\ materialNameSet' = materialNameSet \union {uniqueName.name}
  /\ uniqueName' = NoUniqueName
  /\ npc' = "materials"
  /\ UNCHANGED <<materialsData, createDefaultMaterial>>
  /\ UNCHANGED otherThanNames

\* converter.cpp line 411: the loop over the materials ends
FinishCreateMaterials ==
  /\ npc = "materials"
  /\ Len(m_materialNames) = Len(materialsData)
  /\ npc' = "done"
  /\ UNCHANGED <<materialsData, createDefaultMaterial, materialNameSet,
                 m_materialNames, uniqueName>>
  /\ UNCHANGED otherThanNames

NamesNext ==
  \/ CreateDefaultMaterial
  \/ BeginUniqueMaterialName
  \/ TryNextMaterialName
  \/ ReturnUniqueMaterialName
  \/ FinishCreateMaterials

SpecNames == NamesInit /\ [][NamesNext]_vars

\* createMaterials runs on: no step of it waits for anything
SpecNamesFair == SpecNames /\ WF_vars(NamesNext)

\* the names given so far are distinct, are not the default material's
\* when that was created, are not empty, do not start with an underscore
\* and are no MaterialX type names
MaterialNamesAreSound ==
  /\ \A j \in DOMAIN m_materialNames, k \in DOMAIN m_materialNames :
       j # k => m_materialNames[j] # m_materialNames[k]
  /\ \A j \in DOMAIN m_materialNames :
       /\ createDefaultMaterial => m_materialNames[j] # defaultMaterialName
       /\ m_materialNames[j] # <<>>
       /\ m_materialNames[j][1] # "_"
       /\ Str(m_materialNames[j]) \notin MTLX_TYPE_NAME_SET
  /\ Str(defaultMaterialName) = DEFAULT_MATERIAL_NAME

=============================================================================
